---- MODULE Spec2Model ----
(***************************************************************************)
(* A model of the codex app-server client: the stdio JSON-RPC transport    *)
(* (src/src/transport.ts: StdioTransport), the client built on it          *)
(* (CodexClient: connect, request, runTurn, runReview, handleMessage) and   *)
(* the read loop's line framing.                                           *)
(*                                                                         *)
(*   Spec        one transport instance with the client attached: requests,*)
(*               responses, deadlines, process exit, close                 *)
(*   SpecShutdown  Spec with disconnect() and repeated shutdown calls      *)
(*   SpecTurn    runTurn aggregation over the same transport               *)
(*   SpecLost    runTurn calls while the process exits or the client       *)
(*               disconnects                                               *)
(*   SpecLive    one runTurn call and plain requests under fair scheduling *)
(*   SpecReview  one runReview call                                        *)
(*   SpecCleanup a runTurn call and a runReview call side by side          *)
(*   SpecAggregate  what one runTurn call aggregates                       *)
(*   SpecShapes  one runTurn call fed well-formed and malformed            *)
(*               notifications                                             *)
(*   SpecRouter  message handlers subscribed beside the client's           *)
(*   SpecFramer  readLoop's chunk buffering and line splitting             *)
(***************************************************************************)
EXTENDS Naturals, Sequences, FiniteSets, TLC

(* ------------------------------------------------------------------ *)
(* Bounds of the model                                                 *)
(* ------------------------------------------------------------------ *)

\* Correlation ids 0 .. MaxRequests-1 may be allocated.
MaxRequests == 2

\* Lines the peer may write to stdout in one behaviour of Spec.
MaxLines == 2

\* Notifications the peer may write to stdout in one behaviour of SpecTurn.
MaxNotifications == 3

\* Bytes of the stream the subprocess writes to stdout in SpecFramer.
MaxBytes == 4

(* ------------------------------------------------------------------ *)
(* Program constants                                                   *)
(* ------------------------------------------------------------------ *)

\* Exit code the subprocess reports on an unexpected exit.
ExitCode == 1

\* JSON-RPC error code of the peer's error responses.
RpcErrorCode == 32603

(* ------------------------------------------------------------------ *)
(* State                                                               *)
(* ------------------------------------------------------------------ *)

VARIABLES
    \* StdioTransport
    nextRequestId,      \* private nextRequestId
    pending,            \* keys of the pending Map
    timers,             \* ids whose setTimeout is armed
    promise,            \* id -> the promise request() returned
    closed,             \* private closed
    closeInitiated,     \* private closeInitiated
    messageHandlers,    \* Set of message handlers
    errorHandlers,      \* Set of error handlers
    readLoop,           \* "idle" | "reading" | "done" | "crashed"
    closePc,            \* position of close(): "idle" | "awaitRead" | "awaitExit" | "done"
    \* StdioProcess
    exited,             \* process.exited has resolved
    exitPc,             \* exited-callback: "idle" | "done" | "threw" | "caught"
    stdin,              \* lines written to process.stdin, in order
    stdinEnded,         \* number of calls of process.stdin.end()
    nLines,             \* lines read from process.stdout so far
    late,               \* ids a response was read for after their request had settled
    \* CodexClient
    transport,          \* this.transport: "none" | "open"
    connectPc,          \* connect(): "idle" | "initializing" | "connected" | "failed"
    errorListener,      \* the user registered an 'error' listener on the client
    errorSignals,       \* invocations of error handlers so far
    lastError,          \* the error handed to the error handlers last
    nDelivered,         \* invocations of message handlers so far
    completedTurns,     \* the completedTurns Map: turn id -> Turn, NoTurn where absent
    listeners,          \* the client's internal listeners: <<event, call>>
    waitTimers,         \* calls whose turn-completion timer is armed
    calls,              \* call -> the state of that runTurn call
    \* readLoop
    stdout,             \* the bytes process.stdout delivers, in order
    nRead,              \* bytes of stdout handed over by reader.read() so far
    decoder,            \* this.decoder: the bytes of an incomplete character it holds
    buffer,             \* readLoop's buffer: the characters not yet split off as a line
    handled,            \* the lines handed to handleLine so far, in order
    cuts,               \* where chunk boundaries fell: "line" (inside a line), "char"
    \* shutdown and handshake outcome
    reclosed,           \* close() or disconnect() was called again after the first call
    kills,              \* number of calls of process.kill()
    connectError,       \* the error connect() rejected with, "" while it has not
    \* message handlers subscribed on the transport
    handlerSeq,         \* the messageHandlers Set in its insertion order
    received,           \* user handler -> the numbers of the lines it was invoked with
    review              \* the state of the runReview call

tvars == <<nextRequestId, pending, timers, promise, closed, closeInitiated,
           messageHandlers, errorHandlers, readLoop, closePc>>
pvars == <<exited, exitPc, stdin, stdinEnded, nLines, late>>
cvars == <<transport, connectPc, errorListener, errorSignals, lastError, nDelivered>>
avars == <<completedTurns, listeners, waitTimers, calls>>
fvars == <<stdout, nRead, decoder, buffer, handled, cuts>>
kvars == <<reclosed, kills, connectError>>
ovars == <<handlerSeq, received, review>>
vars == <<tvars, pvars, cvars, avars, fvars, kvars, ovars>>

(* ------------------------------------------------------------------ *)
(* JSON-RPC messages (types.ts) and lines on the wire                  *)
(* ------------------------------------------------------------------ *)

NoValue == [type |-> "undefined"]
NoError == [code |-> 0, message |-> ""]

\* A line that JSON.parse rejects.
InvalidLine == [json |-> FALSE, text |-> "not json", kind |-> "none", keys |-> {}, id |-> 0,
                method |-> "",
                result |-> NoValue, error |-> NoError, params |-> NoValue]

JsonRpcResponse(id, result) ==
    [json |-> TRUE, text |-> "", kind |-> "object", keys |-> {"id", "result"}, id |-> id, method |-> "",
     result |-> result, error |-> NoError, params |-> NoValue]

JsonRpcErrorResponse(id, err) ==
    [json |-> TRUE, text |-> "", kind |-> "object", keys |-> {"id", "error"}, id |-> id, method |-> "",
     result |-> NoValue, error |-> err, params |-> NoValue]

\* A response object that has both members, result and error.
JsonRpcResultAndError(id, result, err) ==
    [json |-> TRUE, text |-> "", kind |-> "object", keys |-> {"id", "result", "error"}, id |-> id, method |-> "",
     result |-> result, error |-> err, params |-> NoValue]

JsonRpcNotification(method, params) ==
    [json |-> TRUE, text |-> "", kind |-> "object", keys |-> {"method", "params"}, id |-> 0, method |-> method,
     result |-> NoValue, error |-> NoError, params |-> params]

JsonRpcRequest(method, id) ==
    [json |-> TRUE, text |-> "", kind |-> "object", keys |-> {"id", "method"}, id |-> id, method |-> method,
     result |-> NoValue, error |-> NoError, params |-> NoValue]

\* A line that JSON.parse accepts and that is not an object: a number, null.
JsonValue(kind, text) ==
    [json |-> TRUE, text |-> text, kind |-> kind, keys |-> {}, id |-> 0, method |-> "",
     result |-> NoValue, error |-> NoError, params |-> NoValue]

\* The object {}.
EmptyObject ==
    [json |-> TRUE, text |-> "", kind |-> "object", keys |-> {}, id |-> 0, method |-> "",
     result |-> NoValue, error |-> NoError, params |-> NoValue]

\* "id" in message throws a TypeError when message is not an object.
isJsonRpcResponseThrows(message) == message.kind # "object"

isJsonRpcResponse(message) == "id" \in message.keys /\ "method" \notin message.keys

isJsonRpcNotification(message) == "method" \in message.keys /\ "id" \notin message.keys

formatJsonRpcError(error) == ToString(error.code) \o ": " \o error.message

(* ------------------------------------------------------------------ *)
(* Promises returned by request()                                      *)
(* ------------------------------------------------------------------ *)

\* calls counts the invocations of the executor's resolve / reject.
NewPromise(method) ==
    [st |-> "pending", val |-> NoValue, err |-> "", method |-> method, calls |-> 0]

Resolve(p, value) ==
    IF p.st = "pending"
    THEN [p EXCEPT !.st = "resolved", !.val = value, !.calls = @ + 1]
    ELSE [p EXCEPT !.calls = @ + 1]

Reject(p, error) ==
    IF p.st = "pending"
    THEN [p EXCEPT !.st = "rejected", !.err = error, !.calls = @ + 1]
    ELSE [p EXCEPT !.calls = @ + 1]

(* ------------------------------------------------------------------ *)
(* StdioTransport: the pending registry                                *)
(* ------------------------------------------------------------------ *)

\* The registry as it is, for the handlers that leave it alone.
Registry == [pending |-> pending, timers |-> timers, promise |-> promise]

\* Mutant: responses matched to requests in send order instead of by id.
resolvePendingInOrder(response) ==
    IF pending = {}
    THEN Registry
    ELSE LET k == CHOOSE i \in pending : \A j \in pending : i <= j
         IN [pending |-> pending \ {k},
             timers  |-> timers \ {k},
             promise |-> [promise EXCEPT ![k] =
                             IF response.error # NoError
                             THEN Reject(@, formatJsonRpcError(response.error))
                             ELSE Resolve(@, response.result)]]

\* Mutant: no lookup in the pending Map before settling.
resolvePendingUnchecked(response) ==
    IF response.id \notin DOMAIN promise
    THEN Registry
    ELSE [pending |-> pending \ {response.id},
          timers  |-> timers \ {response.id},
          promise |-> [promise EXCEPT ![response.id] =
                          IF response.error # NoError
                          THEN Reject(@, formatJsonRpcError(response.error))
                          ELSE Resolve(@, response.result)]]

\* resolvePending(response) that looks at the result member first.
resolvePendingResultFirst(response) ==
    IF response.id \notin pending
    THEN Registry
    ELSE [pending |-> pending \ {response.id},
          timers  |-> timers \ {response.id},
          promise |-> [promise EXCEPT ![response.id] =
                          IF "result" \in response.keys
                          THEN Resolve(@, response.result)
                          ELSE Reject(@, formatJsonRpcError(response.error))]]

\* resolvePending(response): the registry after it.
resolvePending(response) ==
    IF response.id \notin pending
    THEN Registry
    ELSE [pending |-> pending \ {response.id},
          timers  |-> timers \ {response.id},
          promise |-> [promise EXCEPT ![response.id] =
                          IF response.error # NoError
                          THEN Reject(@, formatJsonRpcError(response.error))
                          ELSE Resolve(@, response.result)]]

\* Mutant: the loop stops after the first entry.
rejectAllPendingFirstOnly(error) ==
    IF pending = {}
    THEN Registry
    ELSE LET k == CHOOSE i \in pending : \A j \in pending : i <= j
         IN [pending |-> pending \ {k},
             timers  |-> timers \ {k},
             promise |-> [promise EXCEPT ![k] = Reject(@, error)]]

\* rejectAllPending(error): the registry after it.
rejectAllPending(error) ==
    [pending |-> {},
     timers  |-> timers \ pending,
     promise |-> [i \in DOMAIN promise |->
                     IF i \in pending THEN Reject(promise[i], error) ELSE promise[i]]]

\* Mutant: the timer callback rejects and leaves the entry in the Map.
requestTimeoutKeepsEntry(id) ==
    [pending |-> pending,
     timers  |-> timers \ {id},
     promise |-> [promise EXCEPT ![id] =
                     Reject(@, "Request timed out for method " \o promise[id].method)]]

\* A timer callback that gives up on everything pending.
requestTimeoutRejectsAll(id) ==
    [pending |-> {},
     timers  |-> timers \ pending,
     promise |-> [k \in DOMAIN promise |->
                     IF k \in pending
                     THEN Reject(promise[k],
                                 "Request timed out for method " \o promise[id].method)
                     ELSE promise[k]]]

\* The timer callback of request(): the registry after it.
requestTimeout(id) ==
    [pending |-> pending \ {id},
     timers  |-> timers \ {id},
     promise |-> [promise EXCEPT ![id] =
                     Reject(@, "Request timed out for method " \o promise[id].method)]]

SetRegistry(r) ==
    /\ pending' = r.pending
    /\ timers' = r.timers
    /\ promise' = r.promise

(* ------------------------------------------------------------------ *)
(* Observers                                                           *)
(* ------------------------------------------------------------------ *)

\* The client's error handler re-emits the error as an 'error' event; an
\* EventEmitter with no 'error' listener throws the error instead.
clientErrorHandlerThrows == ~errorListener

emitErrorThrows == "client" \in errorHandlers /\ clientErrorHandlerThrows

emitError(error) ==
    /\ errorSignals' = errorSignals + Cardinality(errorHandlers)
    /\ lastError' = IF errorHandlers = {} THEN lastError ELSE error

exitError == "codex app-server exited unexpectedly with code " \o ToString(ExitCode)

(* ------------------------------------------------------------------ *)
(* CodexClient: notification payloads (types.ts)                       *)
(* ------------------------------------------------------------------ *)

TurnIds == {"turn-1", "turn-2"}
ThreadId == "thread-1"
Calls == {"A", "B"}

Null == [type |-> "null"]
NoTurnError == [has |-> FALSE, message |-> ""]
TurnError(message) == [has |-> TRUE, message |-> message]

\* Turn: items is always an array here and is left out.
Turn(id, status, error) == [type |-> "turn", id |-> id, status |-> status, error |-> error]
NoTurn == Turn("", "", NoTurnError)

ThreadItem(type, id, text) == [type |-> type, id |-> id, text |-> text]

TurnCompletedParams(turn) == [type |-> "object", threadId |-> ThreadId, turn |-> turn]
ItemParams(turnId, item) ==
    [type |-> "object", threadId |-> ThreadId, turnId |-> turnId, item |-> item]
DeltaParams(turnId, itemId, text) ==
    [type |-> "object", threadId |-> ThreadId, turnId |-> turnId, itemId |-> itemId,
     text |-> text]
DiffParams(turnId, diff) ==
    [type |-> "object", threadId |-> ThreadId, turnId |-> turnId, diff |-> diff]

isObject(value) == value.type = "object"

isTurn(value) == value.type = "turn"

\* isThreadItem(value): an object whose id and type are strings.
isThreadItem(value) == {"type", "id"} \subseteq DOMAIN value

\* isThread(value): an object whose id is a string.
isThread(value) == isObject(value) /\ "id" \in DOMAIN value

\* The as...Notification validators: the payload, or Null when its shape is wrong.
asTurnNotification(params) ==
    IF isObject(params) /\ {"threadId", "turn"} \subseteq DOMAIN params /\ isTurn(params.turn)
    THEN params ELSE Null

asTurnCompletedNotification(params) ==
    IF isObject(params) /\ {"threadId", "turn"} \subseteq DOMAIN params /\ isTurn(params.turn)
    THEN params ELSE Null

asItemNotification(params) ==
    IF isObject(params) /\ {"threadId", "turnId", "item"} \subseteq DOMAIN params
       /\ isThreadItem(params.item)
    THEN params ELSE Null

asAgentDeltaNotification(params) ==
    IF isObject(params) /\ {"threadId", "turnId", "itemId", "text"} \subseteq DOMAIN params
    THEN params ELSE Null

\* Mutant: a diff update accepted without its thread id.
asDiffUpdatedNotificationNoThread(params) ==
    IF isObject(params) /\ {"turnId", "diff"} \subseteq DOMAIN params
    THEN params ELSE Null

asDiffUpdatedNotification(params) ==
    IF isObject(params) /\ {"threadId", "turnId", "diff"} \subseteq DOMAIN params
    THEN params ELSE Null

asThreadStartedNotification(params) ==
    IF isObject(params) /\ "thread" \in DOMAIN params /\ isThread(params.thread)
    THEN params ELSE Null

\* extractTurn(result): the turn of a turn/start result, or Null where it throws.
extractTurn(result) ==
    IF isTurn(result) THEN result
    ELSE IF isObject(result) /\ "turn" \in DOMAIN result /\ isTurn(result.turn)
         THEN result.turn
         ELSE Null

(* ------------------------------------------------------------------ *)
(* CodexClient.runTurn: the state of one call                          *)
(* ------------------------------------------------------------------ *)

NoDiff == [has |-> FALSE, diff |-> ""]
NoResult == [turn |-> NoTurn, items |-> <<>>, agentMessage |-> "", diff |-> NoDiff]

\* pc: "idle" | "starting" (awaiting the turn/start response) | "wait" (awaiting
\* the terminal notification) | "got" (terminal turn in hand, continuation not yet
\* run) | "timedout" (the wait rejected) | "resolved" | "rejected".
\* itemsByTurn, diffByTurn, agentMessagesByTurn are the call's three Maps; a
\* missing key reads as <<>> or NoDiff. agentMessagesByTurn[t] keeps the inner
\* Map's insertion order as a sequence of [itemId, text].
\* heard, cut, foreign and fromCache only record what happened while the call was
\* in flight: the payloads its three listeners were invoked with, in order; the
\* number of items of each turn collected when the latest turn/completed of that
\* turn was dispatched; the number of payloads heard that bore another turn id
\* (set when the call settles); whether the terminal turn came from the
\* completedTurns cache.
IdleCall ==
    [pc |-> "idle", req |-> 0, turn |-> NoTurn,
     itemsByTurn |-> [t \in TurnIds |-> <<>>],
     diffByTurn |-> [t \in TurnIds |-> NoDiff],
     agentMessagesByTurn |-> [t \in TurnIds |-> <<>>],
     term |-> NoTurn, result |-> NoResult, error |-> "",
     heard |-> <<>>, cut |-> [t \in TurnIds |-> <<>>], foreign |-> 0,
     fromCache |-> FALSE]

\* The Map byItem after byItem.set(itemId, current + text).
RECURSIVE appendText(_, _, _)
appendText(byItem, itemId, text) ==
    IF byItem = <<>> THEN <<[itemId |-> itemId, text |-> text]>>
    ELSE IF Head(byItem).itemId = itemId
         THEN <<[itemId |-> itemId, text |-> Head(byItem).text \o text]>> \o Tail(byItem)
         ELSE <<Head(byItem)>> \o appendText(Tail(byItem), itemId, text)

\* chunks.join("") over the Map's values.
RECURSIVE joinValues(_)
joinValues(byItem) ==
    IF byItem = <<>> THEN "" ELSE Head(byItem).text \o joinValues(Tail(byItem))

\* The text of the first agent-message item with a non-empty text, or "".
RECURSIVE firstAgentText(_)
firstAgentText(items) ==
    IF items = <<>> THEN ""
    ELSE IF Head(items).type = "agentMessage" /\ Head(items).text # ""
         THEN Head(items).text
         ELSE firstAgentText(Tail(items))

\* Mutant: the agent message taken from the completed items alone.
extractAgentMessageItemsOnly(items, deltas) == firstAgentText(items)

extractAgentMessage(items, deltas) ==
    IF firstAgentText(items) # "" THEN firstAgentText(items)
    ELSE IF deltas # <<>> THEN joinValues(deltas)
         ELSE ""

\* The listeners runTurn registers before it starts the turn.
RunTurnListeners(c) ==
    {<<"_internal:itemCompleted", c>>, <<"_internal:agentDelta", c>>,
     <<"_internal:turnDiff", c>>}

\* Mutant: a diff update appended to the diff held for the turn.
onDiffConcatenates(call, payload) ==
    [call EXCEPT !.diffByTurn[payload.turnId] = [has |-> TRUE, diff |-> @.diff \o payload.diff],
                 !.heard = Append(@, [kind |-> "diff", payload |-> payload])]

\* Mutant: one item list for the call, not keyed by the payload's turn id.
onItemCompletedUnkeyed(call, payload) ==
    [call EXCEPT
        !.itemsByTurn = [t \in TurnIds |-> Append(call.itemsByTurn[t], payload.item)],
        !.agentMessagesByTurn[payload.turnId] =
            IF payload.item.type = "agentMessage"
            THEN appendText(@, payload.item.id, payload.item.text)
            ELSE @,
        !.heard = Append(@, [kind |-> "item", payload |-> payload])]

onItemCompleted(call, payload) ==
    [call EXCEPT
        !.itemsByTurn[payload.turnId] = Append(@, payload.item),
        !.agentMessagesByTurn[payload.turnId] =
            IF payload.item.type = "agentMessage"
            THEN appendText(@, payload.item.id, payload.item.text)
            ELSE @,
        !.heard = Append(@, [kind |-> "item", payload |-> payload])]

onAgentDelta(call, payload) ==
    [call EXCEPT !.agentMessagesByTurn[payload.turnId] =
                     appendText(@, payload.itemId, payload.text),
                 !.heard = Append(@, [kind |-> "delta", payload |-> payload])]

onDiff(call, payload) ==
    [call EXCEPT !.diffByTurn[payload.turnId] = [has |-> TRUE, diff |-> payload.diff],
                 !.heard = Append(@, [kind |-> "diff", payload |-> payload])]

\* The listener of waitForTurnCompletion(turnId) on a turn/completed payload.
onTurnCompleted(call, notification) ==
    IF notification.turn.id # call.turn.id
    THEN call
    ELSE [call EXCEPT !.pc = "got", !.term = notification.turn]

\* What the dispatch of a turn/completed payload records about a call in flight.
noteTerminal(call, turn) ==
    IF call.pc \in {"starting", "wait"}
    THEN [call EXCEPT !.cut[turn.id] = <<Len(call.itemsByTurn[turn.id])>>]
    ELSE call

(* ------------------------------------------------------------------ *)
(* CodexClient.runReview: the state of the call                        *)
(* ------------------------------------------------------------------ *)

\* A string whose characters matter is the sequence of its characters: the
\* line feed, the space, the digit 1, U+00E9 and U+FFFD.
CharLF == "U+000A"
CharSP == "U+0020"
CharDigit == "U+0031"
CharE9 == "U+00E9"
CharReplacement == "U+FFFD"

isWhiteSpace(ch) == ch \in {CharSP, CharLF}

\* String.prototype.trim.
RECURSIVE trimStart(_)
trimStart(str) ==
    IF str # <<>> /\ isWhiteSpace(Head(str)) THEN trimStart(Tail(str)) ELSE str

RECURSIVE trimEnd(_)
trimEnd(str) ==
    IF str # <<>> /\ isWhiteSpace(str[Len(str)])
    THEN trimEnd(SubSeq(str, 1, Len(str) - 1)) ELSE str

trim(str) == trimEnd(trimStart(str))

\* texts.join("\n")
RECURSIVE joinLines(_)
joinLines(texts) ==
    IF texts = <<>> THEN <<>>
    ELSE IF Len(texts) = 1 THEN texts[1]
    ELSE Head(texts) \o <<CharLF>> \o joinLines(Tail(texts))

NoReview == [turn |-> NoTurn, reviewText |-> <<>>]

\* pc as for a runTurn call. turnId is reviewTurnId, "" for undefined;
\* reviewTexts the array of that name; term the turn the wait resolved with.
\* early and heard only record what happened: the item/completed payloads
\* dispatched while the call awaited the review/start response, and the ones
\* its listener was invoked with, in order; threadTerm the turn of the first
\* turn/completed of the call's thread dispatched while the call was in flight.
IdleReview ==
    [pc |-> "idle", req |-> 0, turnId |-> "", reviewTexts |-> <<>>, term |-> NoTurn,
     result |-> NoReview, error |-> "", early |-> <<>>, heard |-> <<>>,
     threadTerm |-> NoTurn]

\* typeof result.turnId === "string" ? result.turnId : undefined, on what
\* startReview returns.
reviewTurnIdOf(result) ==
    IF isObject(result) /\ "turnId" \in DOMAIN result THEN result.turnId ELSE ""

\* Mutant: the listener of runReview without the test of the turn id.
onReviewItemAnyTurn(call, payload) ==
    LET kept == [call EXCEPT !.heard = Append(@, payload)] IN
    IF /\ payload.item.type \in {"enteredReviewMode", "exitedReviewMode"}
       /\ "review" \in DOMAIN payload.item
       /\ Len(payload.item.review) > 0
    THEN [kept EXCEPT !.reviewTexts = Append(@, payload.item.review)]
    ELSE kept

\* The onItemCompleted listener of runReview.
onReviewItem(call, payload) ==
    LET kept == [call EXCEPT !.heard = Append(@, payload)] IN
    IF call.turnId # "" /\ payload.turnId # call.turnId THEN kept
    ELSE IF /\ payload.item.type \in {"enteredReviewMode", "exitedReviewMode"}
            /\ "review" \in DOMAIN payload.item
            /\ Len(payload.item.review) > 0
    THEN [kept EXCEPT !.reviewTexts = Append(@, payload.item.review)]
    ELSE kept

\* The turn-completed listener of runReview's wait is subscribed and accepts
\* the notification: by turn id (waitForTurnCompletion) or, without a review
\* turn id, by thread id (waitForAnyThreadTurnCompletion).
reviewAccepts(data) ==
    /\ <<"_internal:turnCompleted", "R">> \in listeners
    /\ IF review.turnId # "" THEN data.turn.id = review.turnId
       ELSE data.threadId = ThreadId

\* The runReview call after a turn/completed payload was emitted: its wait's
\* listener, when it accepts the payload, resolves the wait with the turn.
onReviewTurnCompleted(call, data) ==
    LET noted == IF /\ call.pc \in {"starting", "wait"}
                    /\ data.threadId = ThreadId
                    /\ call.threadTerm = NoTurn
                 THEN [call EXCEPT !.threadTerm = data.turn] ELSE call
    IN IF reviewAccepts(data) THEN [noted EXCEPT !.pc = "got", !.term = data.turn]
       ELSE noted

(* ------------------------------------------------------------------ *)
(* CodexClient.handleMessage                                           *)
(* ------------------------------------------------------------------ *)

\* The client's aggregation state as it is.
Aggregation ==
    [completedTurns |-> completedTurns, listeners |-> listeners,
     waitTimers |-> waitTimers, calls |-> calls, review |-> review]

SetAggregation(a) ==
    /\ completedTurns' = a.completedTurns
    /\ listeners' = a.listeners
    /\ waitTimers' = a.waitTimers
    /\ calls' = a.calls
    /\ review' = a.review

\* Calls whose waitForTurnCompletion listener accepts this turn.
Waiters(turn) ==
    {c \in Calls : <<"_internal:turnCompleted", c>> \in listeners
                   /\ calls[c].turn.id = turn.id}

reviewWaiter(data) == IF reviewAccepts(data) THEN {"R"} ELSE {}

\* Mutant: the terminal turn is emitted to the waiting calls and not cached.
handleTurnCompletedUncached(data) ==
    [completedTurns |-> completedTurns,
     listeners  |-> listeners \ {<<"_internal:turnCompleted", c>> :
                                    c \in Waiters(data.turn) \cup reviewWaiter(data)},
     waitTimers |-> (waitTimers \ Waiters(data.turn)) \ reviewWaiter(data),
     review     |-> onReviewTurnCompleted(review, data),
     calls      |-> [c \in Calls |->
                        IF c \in Waiters(data.turn)
                        THEN onTurnCompleted(noteTerminal(calls[c], data.turn), data)
                        ELSE noteTerminal(calls[c], data.turn)]]

\* case "turn/completed": cache the turn, then emit; a waiting call's listener
\* clears its timer, unsubscribes, deletes the cache entry and resolves.
handleTurnCompleted(data) ==
    [completedTurns |-> [completedTurns EXCEPT ![data.turn.id] =
                            IF Waiters(data.turn) = {}
                               /\ ~(reviewAccepts(data) /\ review.turnId # "")
                            THEN data.turn ELSE NoTurn],
     listeners  |-> listeners \ {<<"_internal:turnCompleted", c>> :
                                    c \in Waiters(data.turn) \cup reviewWaiter(data)},
     waitTimers |-> (waitTimers \ Waiters(data.turn)) \ reviewWaiter(data),
     review     |-> onReviewTurnCompleted(review, data),
     calls      |-> [c \in Calls |->
                        IF c \in Waiters(data.turn)
                        THEN onTurnCompleted(noteTerminal(calls[c], data.turn), data)
                        ELSE noteTerminal(calls[c], data.turn)]]

handleItemCompleted(data) ==
    [Aggregation EXCEPT
        !.calls =
            [c \in Calls |-> IF <<"_internal:itemCompleted", c>> \in listeners
                             THEN onItemCompleted(calls[c], data) ELSE calls[c]],
        !.review =
            IF <<"_internal:itemCompleted", "R">> \in listeners
            THEN onReviewItem(review, data)
            ELSE IF review.pc = "starting" THEN [review EXCEPT !.early = Append(@, data)]
            ELSE review]

handleAgentDelta(data) ==
    [Aggregation EXCEPT !.calls =
        [c \in Calls |-> IF <<"_internal:agentDelta", c>> \in listeners
                         THEN onAgentDelta(calls[c], data) ELSE calls[c]]]

handleDiffUpdated(data) ==
    [Aggregation EXCEPT !.calls =
        [c \in Calls |-> IF <<"_internal:turnDiff", c>> \in listeners
                         THEN onDiff(calls[c], data) ELSE calls[c]]]

\* handleMessage(message): the aggregation state after it. The public events it
\* emits (turn:completed, item:completed, ...) have no listener here.
handleMessage(message) ==
    IF ~isJsonRpcNotification(message) THEN Aggregation
    ELSE IF message.method = "turn/completed"
              /\ asTurnCompletedNotification(message.params) # Null
         THEN handleTurnCompleted(asTurnCompletedNotification(message.params))
    ELSE IF message.method = "item/completed"
              /\ asItemNotification(message.params) # Null
         THEN handleItemCompleted(asItemNotification(message.params))
    ELSE IF message.method = "item/agentMessage/delta"
              /\ asAgentDeltaNotification(message.params) # Null
         THEN handleAgentDelta(asAgentDeltaNotification(message.params))
    ELSE IF message.method = "turn/diff/updated"
              /\ asDiffUpdatedNotification(message.params) # Null
         THEN handleDiffUpdated(asDiffUpdatedNotification(message.params))
    ELSE Aggregation

\* The public events handleMessage emits for a message: one per case whose
\* validator accepts the payload, none where the case returns early.
publicEvents(message) ==
    IF ~isJsonRpcNotification(message) THEN {}
    ELSE IF message.method = "turn/started"
         THEN IF asTurnNotification(message.params) # Null THEN {"turn:started"} ELSE {}
    ELSE IF message.method = "turn/completed"
         THEN IF asTurnCompletedNotification(message.params) # Null
              THEN {"turn:completed"} ELSE {}
    ELSE IF message.method = "item/started"
         THEN IF asItemNotification(message.params) # Null THEN {"item:started"} ELSE {}
    ELSE IF message.method = "item/completed"
         THEN IF asItemNotification(message.params) # Null THEN {"item:completed"} ELSE {}
    ELSE IF message.method = "item/agentMessage/delta"
         THEN IF asAgentDeltaNotification(message.params) # Null
              THEN {"item:agentMessage:delta"} ELSE {}
    ELSE IF message.method = "turn/diff/updated"
         THEN IF asDiffUpdatedNotification(message.params) # Null
              THEN {"turn:diff:updated"} ELSE {}
    ELSE IF message.method = "thread/started"
         THEN IF asThreadStartedNotification(message.params) # Null
              THEN {"thread:started"} ELSE {}
    ELSE {}

\* The handlers a user of the transport subscribes with onMessage, next to the
\* client's own: "relay" subscribes "late" while it is being invoked, "late"
\* only records what it is given, "faulty" throws.
UserHandlers == {"relay", "late", "faulty"}

Range(seq) == {seq[i] : i \in 1..Len(seq)}

\* Set.prototype.add: a new element goes to the end of the insertion order, an
\* element already present keeps its place.
SetAdd(seq, h) == IF h \in Range(seq) THEN seq ELSE Append(seq, h)

\* Set.prototype.delete.
SetDelete(seq, h) == SelectSeq(seq, LAMBDA x : x # h)

\* The state of one run of emitMessage's loop: the handler Set, what the user
\* handlers recorded, how many handlers were invoked, whether the client's was
\* one of them, and whether a handler threw.
Dispatching ==
    [seq |-> handlerSeq, received |-> received,
     invoked |-> 0, client |-> FALSE, threw |-> FALSE]

\* for (const handler of this.messageHandlers) handler(message), from position
\* i on, for the line numbered n. The loop iterates the Set itself: an element
\* added while it runs is visited before it ends, and a throw ends it.
RECURSIVE dispatch(_, _, _)
dispatch(d, i, n) ==
    IF i > Len(d.seq) THEN d
    ELSE LET h == d.seq[i]
             called == [d EXCEPT !.invoked = @ + 1] IN
         IF h = "client" THEN dispatch([called EXCEPT !.client = TRUE], i + 1, n)
         ELSE LET given == [called EXCEPT !.received[h] = Append(@, n)] IN
              IF h = "faulty" THEN [given EXCEPT !.threw = TRUE]
              ELSE IF h = "relay" /\ "late" \notin Range(d.seq)
              THEN dispatch([given EXCEPT !.seq = SetAdd(@, "late")], i + 1, n)
              ELSE dispatch(given, i + 1, n)

emitMessageThrows == dispatch(Dispatching, 1, nLines + 1).threw

emitMessage(message) ==
    LET d == dispatch(Dispatching, 1, nLines + 1) IN
    /\ nDelivered' = nDelivered + d.invoked
    /\ handlerSeq' = d.seq
    /\ messageHandlers' = Range(d.seq)
    /\ received' = d.received
    /\ SetAggregation(IF d.client THEN handleMessage(message) ELSE Aggregation)

(* ------------------------------------------------------------------ *)
(* StdioTransport: operations                                          *)
(* ------------------------------------------------------------------ *)

\* send(message): throws when the transport is closed, else writes the line.
send(message) == stdin' = Append(stdin, message)

\* request(method) that gives the id back when the send failed.
requestReusesFailedId(method) ==
    /\ nextRequestId' = IF closed THEN nextRequestId ELSE nextRequestId + 1
    /\ IF closed
       THEN /\ promise' = (nextRequestId :>
                              Reject(NewPromise(method), "transport is closed")) @@ promise
            /\ UNCHANGED <<pending, timers, stdin>>
       ELSE /\ promise' = (nextRequestId :> NewPromise(method)) @@ promise
            /\ pending' = pending \cup {nextRequestId}
            /\ timers' = timers \cup {nextRequestId}
            /\ send(JsonRpcRequest(method, nextRequestId))

\* Mutant: request(method) whose catch block leaves the registry entry in place.
requestLeavesEntry(method) ==
    /\ nextRequestId' = nextRequestId + 1
    /\ IF closed
       THEN /\ promise' = promise @@ (nextRequestId :>
                              Reject(NewPromise(method), "transport is closed"))
            /\ pending' = pending \cup {nextRequestId}
            /\ UNCHANGED <<timers, stdin>>
       ELSE /\ promise' = promise @@ (nextRequestId :> NewPromise(method))
            /\ pending' = pending \cup {nextRequestId}
            /\ timers' = timers \cup {nextRequestId}
            /\ send(JsonRpcRequest(method, nextRequestId))

\* request(method): allocate the id, arm the timer, register, send; a send that
\* throws clears the timer, removes the entry and rejects.
request(method) ==
    /\ nextRequestId' = nextRequestId + 1
    /\ IF closed
       THEN /\ promise' = promise @@ (nextRequestId :>
                              Reject(NewPromise(method), "transport is closed"))
            /\ UNCHANGED <<pending, timers, stdin>>
       ELSE /\ promise' = promise @@ (nextRequestId :> NewPromise(method))
            /\ pending' = pending \cup {nextRequestId}
            /\ timers' = timers \cup {nextRequestId}
            /\ send(JsonRpcRequest(method, nextRequestId))

\* handleLine(line), called by readLoop for each non-empty line. A throw out of a
\* handler leaves readLoop through its await: the loop's promise rejects and no
\* further line is read.
handleLine(line) ==
    IF ~line.json
    THEN /\ emitError("Failed to parse JSON-RPC line: " \o line.text)
         /\ readLoop' = IF emitErrorThrows THEN "crashed" ELSE readLoop
         /\ UNCHANGED <<pending, timers, promise, nDelivered, messageHandlers, ovars, avars>>
    ELSE IF isJsonRpcResponseThrows(line)
    THEN /\ readLoop' = "crashed"
         /\ UNCHANGED <<pending, timers, promise, nDelivered, messageHandlers, ovars, avars,
                        errorSignals, lastError>>
    ELSE /\ SetRegistry(IF isJsonRpcResponse(line) THEN resolvePending(line) ELSE Registry)
         /\ emitMessage(line)
         /\ readLoop' = IF emitMessageThrows THEN "crashed" ELSE readLoop
         /\ UNCHANGED <<errorSignals, lastError>>

(* ------------------------------------------------------------------ *)
(* Initial states                                                      *)
(* ------------------------------------------------------------------ *)

\* readLoop's framing state before any byte is read; Spec and SpecTurn follow
\* the lines read, not their bytes.
NoBytes ==
    /\ stdout = <<>>
    /\ nRead = 0
    /\ decoder = <<>>
    /\ buffer = <<>>
    /\ handled = <<>>
    /\ cuts = {}

\* A client just constructed: no transport yet.
Init ==
    /\ NoBytes
    /\ nextRequestId = 0
    /\ pending = {}
    /\ timers = {}
    /\ promise = <<>>
    /\ closed = FALSE
    /\ closeInitiated = FALSE
    /\ messageHandlers = {}
    /\ errorHandlers = {}
    /\ readLoop = "idle"
    /\ closePc = "idle"
    /\ exited = FALSE
    /\ exitPc = "idle"
    /\ stdin = <<>>
    /\ stdinEnded = 0
    /\ nLines = 0
    /\ late = {}
    /\ reclosed = FALSE
    /\ kills = 0
    /\ connectError = ""
    /\ handlerSeq = <<>>
    /\ received = [h \in UserHandlers |-> <<>>]
    /\ review = IdleReview
    /\ transport = "none"
    /\ connectPc = "idle"
    /\ errorListener \in BOOLEAN
    /\ errorSignals = 0
    /\ lastError = ""
    /\ nDelivered = 0
    /\ completedTurns = [t \in TurnIds |-> NoTurn]
    /\ listeners = {}
    /\ waitTimers = {}
    /\ calls = [c \in Calls |-> IdleCall]

(* ------------------------------------------------------------------ *)
(* Actions: the client's connection                                    *)
(* ------------------------------------------------------------------ *)

\* connect() up to its await: build the transport (which starts readLoop and
\* subscribes to process.exited), subscribe both handlers, request initialize.
Connect ==
    /\ UNCHANGED <<fvars, kvars, received, review>>
    /\ transport = "none"
    /\ connectPc = "idle"
    /\ nextRequestId < MaxRequests
    /\ transport' = "open"
    /\ readLoop' = "reading"
    /\ messageHandlers' = messageHandlers \cup {"client"}
    /\ handlerSeq' = SetAdd(handlerSeq, "client")
    /\ errorHandlers' = errorHandlers \cup {"client"}
    /\ request("initialize")
    /\ connectPc' = "initializing"
    /\ UNCHANGED <<closed, closeInitiated, closePc, exited, exitPc, stdinEnded, nLines, late,
                   errorListener, errorSignals, lastError, nDelivered, avars>>

\* connect() that sends the initialized notification however initialize settled.
ConnectResumeUnchecked ==
    /\ UNCHANGED <<fvars, reclosed, kills, ovars>>
    /\ connectPc = "initializing"
    /\ promise[0].st # "pending"
    /\ send(JsonRpcNotification("initialized", NoValue))
    /\ connectPc' = IF promise[0].st = "resolved" THEN "connected" ELSE "failed"
    /\ connectError' = IF promise[0].st = "resolved" THEN "" ELSE promise[0].err
    /\ UNCHANGED <<tvars, exited, exitPc, stdinEnded, nLines, late, transport, errorListener,
                   errorSignals, lastError, nDelivered, avars>>

\* connect() after its await: the await rethrows the rejection of initialize;
\* else this.transport.send() writes the initialized notification, and throws
\* when disconnect() has set this.transport to null or the transport is closed.
ConnectResume ==
    /\ UNCHANGED <<fvars, reclosed, kills, ovars>>
    /\ connectPc = "initializing"
    /\ promise[0].st # "pending"
    /\ IF promise[0].st = "resolved" /\ transport = "open" /\ ~closed
       THEN /\ send(JsonRpcNotification("initialized", NoValue))
            /\ connectPc' = "connected"
            /\ UNCHANGED connectError
       ELSE /\ connectPc' = "failed"
            /\ connectError' = IF promise[0].st = "rejected" THEN promise[0].err
                                ELSE IF transport = "none"
                                     THEN "TypeError: null is not an object"
                                     ELSE "transport is closed"
            /\ UNCHANGED stdin
    /\ UNCHANGED <<tvars, exited, exitPc, stdinEnded, nLines, late, transport, errorListener,
                   errorSignals, lastError, nDelivered, avars>>

\* A client method other than connect(): request() asks ensureConnected() for
\* the transport, which throws only while this.transport is null, and calls
\* transport.request(method, params, timeoutMs) on it.
Request(method) ==
    /\ UNCHANGED <<fvars, kvars, ovars>>
    /\ transport = "open"
    /\ nextRequestId < MaxRequests
    /\ request(method)
    /\ UNCHANGED <<closed, closeInitiated, messageHandlers, errorHandlers, readLoop,
                   closePc, exited, exitPc, stdinEnded, nLines, late, cvars, avars>>

(* ------------------------------------------------------------------ *)
(* Actions: the read path, timers, the process                         *)
(* ------------------------------------------------------------------ *)

\* readLoop reads one more line and hands it to handleLine.
ReadLine(line) ==
    /\ UNCHANGED <<fvars, kvars>>
    /\ readLoop = "reading"
    /\ nLines' = nLines + 1
    /\ late' = IF isJsonRpcResponse(line) /\ line.id \in DOMAIN promise
                   /\ line.id \notin pending
                THEN late \cup {line.id} ELSE late
    /\ handleLine(line)
    /\ UNCHANGED <<nextRequestId, closed, closeInitiated, errorHandlers,
                   closePc, exited, exitPc, stdin, stdinEnded, transport, connectPc,
                   errorListener>>

\* reader.read() reports done: readLoop returns.
StdoutEnd ==
    /\ UNCHANGED <<fvars, kvars, ovars>>
    /\ readLoop = "reading"
    /\ readLoop' = "done"
    /\ UNCHANGED <<nextRequestId, pending, timers, promise, closed, closeInitiated,
                   messageHandlers, errorHandlers, closePc, pvars, cvars, avars>>

\* reader.read() rejects: the rejection leaves readLoop through its await, so
\* the loop's promise rejects. Nothing is subscribed to that promise; close()
\* awaits it and ignores the error.
StdoutError ==
    /\ UNCHANGED <<fvars, kvars, ovars>>
    /\ readLoop = "reading"
    /\ readLoop' = "crashed"
    /\ UNCHANGED <<nextRequestId, pending, timers, promise, closed, closeInitiated,
                   messageHandlers, errorHandlers, closePc, pvars, cvars, avars>>

\* The deadline of request id elapses.
Timeout(id) ==
    /\ UNCHANGED <<fvars, kvars, ovars>>
    /\ id \in timers
    /\ SetRegistry(requestTimeout(id))
    /\ UNCHANGED <<nextRequestId, closed, closeInitiated, messageHandlers, errorHandlers,
                   readLoop, closePc, pvars, cvars, avars>>

\* The exited callback without its test of closeInitiated.
ProcessExitUnchecked ==
    /\ UNCHANGED <<fvars, kvars, ovars>>
    /\ readLoop # "idle"
    /\ ~exited
    /\ exited' = TRUE
    /\ SetRegistry(rejectAllPending(exitError))
    /\ emitError(exitError)
    /\ exitPc' = IF emitErrorThrows THEN "threw" ELSE "done"
    /\ UNCHANGED <<nextRequestId, closed, closeInitiated, messageHandlers, errorHandlers,
                   readLoop, closePc, stdin, stdinEnded, nLines, late, transport, connectPc,
                   errorListener, nDelivered, avars>>

\* process.exited resolves and the constructor's callback runs: it is the first
\* reaction on that promise, so nothing runs between the two.
ProcessExit ==
    /\ UNCHANGED <<fvars, kvars, ovars>>
    /\ readLoop # "idle"
    /\ ~exited
    /\ exited' = TRUE
    /\ IF ~closeInitiated
       THEN /\ SetRegistry(rejectAllPending(exitError))
            /\ emitError(exitError)
            /\ exitPc' = IF emitErrorThrows THEN "threw" ELSE "done"
       ELSE /\ exitPc' = "done"
            /\ UNCHANGED <<pending, timers, promise, errorSignals, lastError>>
    /\ UNCHANGED <<nextRequestId, closed, closeInitiated, messageHandlers, errorHandlers,
                   readLoop, closePc, stdin, stdinEnded, nLines, late, transport, connectPc,
                   errorListener, nDelivered, avars>>

\* The callback threw (an error handler threw): the .catch callback runs with the
\* thrown error, rejects whatever is pending by then and emits again.
ExitCatch ==
    /\ UNCHANGED <<fvars, kvars, ovars>>
    /\ exitPc = "threw"
    /\ SetRegistry(rejectAllPending(lastError))
    /\ emitError(lastError)
    /\ exitPc' = IF emitErrorThrows THEN "caught" ELSE "done"
    /\ UNCHANGED <<nextRequestId, closed, closeInitiated, messageHandlers, errorHandlers,
                   readLoop, closePc, exited, stdin, stdinEnded, nLines, late, transport,
                   connectPc, errorListener, nDelivered, avars>>

(* ------------------------------------------------------------------ *)
(* Actions: close()                                                    *)
(* ------------------------------------------------------------------ *)

\* close() past its first statement, up to its first await.
close ==
    /\ closeInitiated' = TRUE
    /\ closed' = TRUE
    /\ stdinEnded' = stdinEnded + 1
    /\ closePc' = "awaitRead"

\* close() called on the transport for the first time.
Close ==
    /\ UNCHANGED <<fvars, kvars, ovars>>
    /\ readLoop # "idle"
    /\ ~closed
    /\ close
    /\ UNCHANGED <<nextRequestId, pending, timers, promise, messageHandlers, errorHandlers,
                   readLoop, exited, exitPc, stdin, nLines, late, cvars, avars>>

\* close() on a closed transport that ends stdin and awaits again.
CloseAgainUnguarded ==
    /\ UNCHANGED <<fvars, kills, connectError, ovars>>
    /\ readLoop # "idle"
    /\ closed
    /\ close
    /\ reclosed' = TRUE
    /\ UNCHANGED <<nextRequestId, pending, timers, promise, messageHandlers, errorHandlers,
                   readLoop, exited, exitPc, stdin, nLines, late, cvars, avars>>

\* close() called on a closed transport: it returns at its first statement.
CloseAgain ==
    /\ UNCHANGED <<fvars, kills, connectError, ovars>>
    /\ readLoop # "idle"
    /\ closed
    /\ reclosed' = TRUE
    /\ UNCHANGED <<tvars, pvars, cvars, avars>>

\* disconnect() up to its await: without a transport it returns at once, else it
\* forgets the transport, unsubscribes both handlers and calls close() on it.
\* Nothing in it, nor in close(), calls process.kill().
Disconnect ==
    /\ UNCHANGED <<fvars, kills, connectError, received, review>>
    /\ connectPc # "idle"
    /\ IF transport = "none"
       THEN /\ reclosed' = TRUE
            /\ UNCHANGED <<transport, messageHandlers, handlerSeq, errorHandlers,
                           closeInitiated, closed, stdinEnded, closePc>>
       ELSE /\ transport' = "none"
            /\ messageHandlers' = messageHandlers \ {"client"}
            /\ handlerSeq' = SetDelete(handlerSeq, "client")
            /\ errorHandlers' = errorHandlers \ {"client"}
            /\ IF closed
               THEN /\ reclosed' = TRUE
                    /\ UNCHANGED <<closeInitiated, closed, stdinEnded, closePc>>
               ELSE /\ close
                    /\ UNCHANGED reclosed
    /\ UNCHANGED <<nextRequestId, pending, timers, promise, readLoop, exited, exitPc, stdin,
                   nLines, late, connectPc, errorListener, errorSignals, lastError,
                   nDelivered, avars>>

\* await this.readLoopPromise returns (or throws, which is ignored).
CloseAwaitRead ==
    /\ UNCHANGED <<fvars, kvars, ovars>>
    /\ closePc = "awaitRead"
    /\ readLoop \in {"done", "crashed"}
    /\ closePc' = "awaitExit"
    /\ UNCHANGED <<nextRequestId, pending, timers, promise, closed, closeInitiated,
                   messageHandlers, errorHandlers, readLoop, pvars, cvars, avars>>

\* close() that rejects what is pending without awaiting process.exited.
CloseAwaitExitEarly ==
    /\ UNCHANGED <<fvars, kvars, ovars>>
    /\ closePc = "awaitExit"
    /\ SetRegistry(rejectAllPending("transport closed"))
    /\ closePc' = "done"
    /\ UNCHANGED <<nextRequestId, closed, closeInitiated, messageHandlers, errorHandlers,
                   readLoop, pvars, cvars, avars>>

\* await this.process.exited returns; reject what is still pending.
CloseAwaitExit ==
    /\ UNCHANGED <<fvars, kvars, ovars>>
    /\ closePc = "awaitExit"
    /\ exited
    /\ SetRegistry(rejectAllPending("transport closed"))
    /\ closePc' = "done"
    /\ UNCHANGED <<nextRequestId, closed, closeInitiated, messageHandlers, errorHandlers,
                   readLoop, pvars, cvars, avars>>

(* ------------------------------------------------------------------ *)
(* Spec: one transport with the client attached                        *)
(* ------------------------------------------------------------------ *)

RequestMethods == {"thread/list"}

Results == {[type |-> "object", data |-> "r1"], [type |-> "object", data |-> "r2"]}

PeerError == [code |-> RpcErrorCode, message |-> "boom"]

\* The error of a response that also carries a result.
PartialError == [code |-> RpcErrorCode, message |-> "partial"]

\* What the peer may write in Spec: an unparsable line, a result or an error for
\* any id (allocated or not), a notification.
Lines ==
    {InvalidLine, JsonRpcNotification("thread/started", NoValue)}
    \cup {JsonRpcResponse(id, r) : id \in 0..(MaxRequests - 1), r \in Results}
    \cup {JsonRpcErrorResponse(id, PeerError) : id \in 0..(MaxRequests - 1)}
    \cup {JsonRpcResultAndError(id, [type |-> "object", data |-> "r1"], PartialError) :
               id \in 0..(MaxRequests - 1)}

PeerLine == \E line \in Lines : nLines < MaxLines /\ ReadLine(line)

Next ==
    \/ Connect
    \/ ConnectResume
    \/ \E method \in RequestMethods : Request(method)
    \/ PeerLine
    \/ StdoutEnd
    \/ StdoutError
    \/ \E id \in timers : Timeout(id)
    \/ ProcessExit
    \/ ExitCatch
    \/ Close
    \/ CloseAwaitRead
    \/ CloseAwaitExit

Spec == Init /\ [][Next]_vars

(* ------------------------------------------------------------------ *)
(* SpecShutdown: Spec with disconnect() and repeated shutdown calls    *)
(* ------------------------------------------------------------------ *)

\* The user registered an 'error' listener, so that no handler throws.
InitShutdown ==
    /\ Init
    /\ errorListener = TRUE

NextShutdown ==
    \/ Connect
    \/ ConnectResume
    \/ \E method \in RequestMethods : Request(method)
    \/ PeerLine
    \/ StdoutEnd
    \/ \E id \in timers : Timeout(id)
    \/ ProcessExit
    \/ Close
    \/ CloseAgain
    \/ Disconnect
    \/ CloseAwaitRead
    \/ CloseAwaitExit

SpecShutdown == InitShutdown /\ [][NextShutdown]_vars

(* ------------------------------------------------------------------ *)
(* Actions: runTurn                                                    *)
(* ------------------------------------------------------------------ *)

\* The payloads the call's listeners heard that bear the call's turn id.
ownHeard(call) ==
    SelectSeq(call.heard, LAMBDA e : e.payload.turnId = call.turn.id)

\* A call that has settled: its three Maps are gone with its frame.
Settled(call) ==
    [call EXCEPT !.itemsByTurn = IdleCall.itemsByTurn,
                 !.diffByTurn = IdleCall.diffByTurn,
                 !.agentMessagesByTurn = IdleCall.agentMessagesByTurn,
                 !.heard = IdleCall.heard,
                 !.cut = IdleCall.cut,
                 !.foreign = Len(call.heard) - Len(ownHeard(call))]

\* runTurn(params) up to its first await: register the three listeners, then
\* startTurn -> request -> transport.request("turn/start"). The calls are
\* interchangeable: the first one made is named "A".
RunTurnCall(c) ==
    /\ UNCHANGED <<fvars, kvars, ovars>>
    /\ calls[c].pc = "idle"
    /\ c = "B" => calls["A"].pc # "idle"
    /\ transport = "open"
    /\ listeners' = listeners \cup RunTurnListeners(c)
    /\ request("turn/start")
    /\ calls' = [calls EXCEPT ![c].pc = "starting", ![c].req = nextRequestId]
    /\ UNCHANGED <<closed, closeInitiated, messageHandlers, errorHandlers, readLoop,
                   closePc, exited, exitPc, stdinEnded, nLines, late, cvars,
                   completedTurns, waitTimers>>

\* waitForTurnCompletion that subscribes and arms no timer.
RunTurnStartedNoTimer(c) ==
    /\ UNCHANGED <<fvars, kvars, ovars>>
    /\ calls[c].pc = "starting"
    /\ promise[calls[c].req].st = "resolved"
    /\ LET turn == extractTurn(promise[calls[c].req].val)
       IN IF turn = Null
          THEN /\ calls' = [calls EXCEPT ![c] =
                              Settled([calls[c] EXCEPT !.pc = "rejected",
                                                       !.error = "Invalid turn response"])]
               /\ listeners' = listeners \ RunTurnListeners(c)
               /\ UNCHANGED <<completedTurns, waitTimers>>
          ELSE IF completedTurns[turn.id] # NoTurn
          THEN /\ completedTurns' = [completedTurns EXCEPT ![turn.id] = NoTurn]
               /\ calls' = [calls EXCEPT ![c].pc = "got", ![c].turn = turn,
                                         ![c].term = completedTurns[turn.id],
                                         ![c].fromCache = TRUE]
               /\ UNCHANGED <<listeners, waitTimers>>
          ELSE /\ listeners' = listeners \cup {<<"_internal:turnCompleted", c>>}
               /\ waitTimers' = waitTimers
               /\ calls' = [calls EXCEPT ![c].pc = "wait", ![c].turn = turn]
               /\ UNCHANGED completedTurns
    /\ UNCHANGED <<tvars, pvars, cvars>>

\* The turn/start request resolved: extractTurn, then waitForTurnCompletion:
\* take the turn from the completedTurns cache, or subscribe and arm the timer.
RunTurnStarted(c) ==
    /\ UNCHANGED <<fvars, kvars, ovars>>
    /\ calls[c].pc = "starting"
    /\ promise[calls[c].req].st = "resolved"
    /\ LET turn == extractTurn(promise[calls[c].req].val)
       IN IF turn = Null
          THEN /\ calls' = [calls EXCEPT ![c] =
                              Settled([calls[c] EXCEPT !.pc = "rejected",
                                                       !.error = "Invalid turn response"])]
               /\ listeners' = listeners \ RunTurnListeners(c)
               /\ UNCHANGED <<completedTurns, waitTimers>>
          ELSE IF completedTurns[turn.id] # NoTurn
          THEN /\ completedTurns' = [completedTurns EXCEPT ![turn.id] = NoTurn]
               /\ calls' = [calls EXCEPT ![c].pc = "got", ![c].turn = turn,
                                         ![c].term = completedTurns[turn.id],
                                         ![c].fromCache = TRUE]
               /\ UNCHANGED <<listeners, waitTimers>>
          ELSE /\ listeners' = listeners \cup {<<"_internal:turnCompleted", c>>}
               /\ waitTimers' = waitTimers \cup {c}
               /\ calls' = [calls EXCEPT ![c].pc = "wait", ![c].turn = turn]
               /\ UNCHANGED completedTurns
    /\ UNCHANGED <<tvars, pvars, cvars>>

\* The timer of the turn/start request fires while runTurn awaits it: the
\* request rejects, and runTurn's finally block and rejection run as microtasks
\* of the same timer task, before any further line is read.
RunTurnStartTimeout(c) ==
    /\ UNCHANGED <<fvars, kvars, ovars>>
    /\ calls[c].pc = "starting"
    /\ calls[c].req \in timers
    /\ SetRegistry(requestTimeout(calls[c].req))
    /\ calls' = [calls EXCEPT ![c] =
                    Settled([calls[c] EXCEPT
                                !.pc = "rejected",
                                !.error = requestTimeout(calls[c].req).promise[calls[c].req].err])]
    /\ listeners' = listeners \ RunTurnListeners(c)
    /\ UNCHANGED <<nextRequestId, closed, closeInitiated, messageHandlers, errorHandlers,
                   readLoop, closePc, pvars, cvars, completedTurns, waitTimers>>

\* The CompletedTurn runTurn returns.
completedTurnResult(call) ==
    [turn |-> call.term,
     items |-> call.itemsByTurn[call.turn.id],
     agentMessage |-> extractAgentMessage(call.itemsByTurn[call.turn.id],
                                          call.agentMessagesByTurn[call.turn.id]),
     diff |-> call.diffByTurn[call.turn.id]]

\* Mutant: the status of the terminal turn is not looked at.
finishCallIgnoresFailed(call) ==
    IF call.pc = "timedout"
    THEN [call EXCEPT !.pc = "rejected",
                      !.error = "Timed out waiting for turn completion: " \o call.turn.id]
    ELSE [call EXCEPT !.pc = "resolved", !.result = completedTurnResult(call)]

\* runTurn after the wait: throw on the wait's rejection or on a failed turn,
\* else return the result.
finishCall(call) ==
    IF call.pc = "timedout"
    THEN [call EXCEPT !.pc = "rejected",
                      !.error = "Timed out waiting for turn completion: " \o call.turn.id]
    ELSE IF call.term.status = "failed"
    THEN [call EXCEPT !.pc = "rejected",
                      !.error = IF call.term.error.has THEN call.term.error.message
                                ELSE "Turn failed"]
    ELSE [call EXCEPT !.pc = "resolved", !.result = completedTurnResult(call)]

\* The continuation of runTurn after the wait resolved; its finally block
\* removes the three listeners.
RunTurnFinish(c) ==
    /\ UNCHANGED <<fvars, kvars, ovars>>
    /\ calls[c].pc = "got"
    /\ calls' = [calls EXCEPT ![c] = Settled(finishCall(calls[c]))]
    /\ listeners' = listeners \ RunTurnListeners(c)
    /\ UNCHANGED <<tvars, pvars, cvars, completedTurns, waitTimers>>

\* The timer of waitForTurnCompletion fires: unsubscribe and reject the wait;
\* runTurn's continuation runs as a microtask of the same timer task.
WaitTimeout(c) ==
    /\ UNCHANGED <<fvars, kvars, ovars>>
    /\ c \in waitTimers
    /\ waitTimers' = waitTimers \ {c}
    /\ calls' = [calls EXCEPT ![c] = Settled(finishCall([calls[c] EXCEPT !.pc = "timedout"]))]
    /\ listeners' = listeners \ ({<<"_internal:turnCompleted", c>>} \cup RunTurnListeners(c))
    /\ UNCHANGED <<tvars, pvars, cvars, completedTurns>>

(* ------------------------------------------------------------------ *)
(* SpecTurn: runTurn calls on a connected client                       *)
(* ------------------------------------------------------------------ *)

InitializeResult == [type |-> "object", data |-> "capabilities"]

\* The client after connect() has completed: initialize was answered and the
\* initialized notification sent.
Connected ==
    /\ nextRequestId = 1
    /\ pending = {}
    /\ timers = {}
    /\ promise = (0 :> Resolve(NewPromise("initialize"), InitializeResult))
    /\ closed = FALSE
    /\ closeInitiated = FALSE
    /\ messageHandlers = {"client"}
    /\ errorHandlers = {"client"}
    /\ readLoop = "reading"
    /\ closePc = "idle"
    /\ exited = FALSE
    /\ exitPc = "idle"
    /\ stdin = <<JsonRpcRequest("initialize", 0), JsonRpcNotification("initialized", NoValue)>>
    /\ stdinEnded = 0
    /\ nLines = 1
    /\ late = {}
    /\ reclosed = FALSE
    /\ kills = 0
    /\ connectError = ""
    /\ handlerSeq = <<"client">>
    /\ received = [h \in UserHandlers |-> <<>>]
    /\ review = IdleReview
    /\ transport = "open"
    /\ connectPc = "connected"
    /\ errorSignals = 0
    /\ lastError = ""
    /\ nDelivered = 1
    /\ completedTurns = [t \in TurnIds |-> NoTurn]
    /\ listeners = {}
    /\ waitTimers = {}
    /\ calls = [c \in Calls |-> IdleCall]

InitTurn ==
    /\ Connected
    /\ errorListener = TRUE
    /\ NoBytes

HelloItem == ThreadItem("agentMessage", "item-1", "hello world")
CommandItem == ThreadItem("commandExecution", "item-2", "")

TurnStartResult(t) == [type |-> "object", turn |-> Turn(t, "inProgress", NoTurnError)]

\* What the peer may write in SpecTurn: an answer to a pending turn/start naming
\* a turn not yet assigned, and notifications about the turns in any order. The streamed
\* payloads all bear the id of turn-1, so that any of them in the result of a
\* call on turn-2 comes from the other turn.
\* The turn ids the peer has assigned so far; it assigns each one once.
assignedTurnIds ==
    {promise[id].val.turn.id :
        id \in {i \in DOMAIN promise : /\ promise[i].method = "turn/start"
                                       /\ promise[i].st = "resolved"
                                       /\ "turn" \in DOMAIN promise[i].val}}

TurnResponses ==
    {JsonRpcResponse(id, TurnStartResult(t)) : id \in pending, t \in TurnIds \ assignedTurnIds}

TurnNotifications ==
    {JsonRpcNotification("turn/completed", TurnCompletedParams(Turn("turn-1", "completed", NoTurnError))),
     JsonRpcNotification("turn/completed", TurnCompletedParams(Turn("turn-1", "failed", TurnError("boom")))),
     JsonRpcNotification("turn/completed", TurnCompletedParams(Turn("turn-2", "completed", NoTurnError))),
     JsonRpcNotification("item/completed", ItemParams("turn-1", HelloItem)),
     JsonRpcNotification("item/completed", ItemParams("turn-1", CommandItem)),
     JsonRpcNotification("item/started", ItemParams("turn-1", HelloItem)),
     JsonRpcNotification("item/agentMessage/delta", DeltaParams("turn-1", "item-1", "hello ")),
     JsonRpcNotification("turn/diff/updated", DiffParams("turn-1", "diff-1a")),
     JsonRpcNotification("turn/diff/updated", DiffParams("turn-1", "diff-1b"))}

TurnLines == TurnResponses \cup TurnNotifications

\* Notifications read so far in SpecTurn: every other line read resolved a request.
notificationsRead ==
    nLines - Cardinality({id \in DOMAIN promise : promise[id].st = "resolved"})

PeerTurnLine ==
    \/ \E line \in TurnResponses : ReadLine(line)
    \/ \E line \in TurnNotifications :
          notificationsRead < MaxNotifications /\ ReadLine(line)

NextTurn ==
    \/ \E c \in Calls : RunTurnCall(c)
    \/ \E c \in Calls : RunTurnStarted(c)
    \/ \E c \in Calls : RunTurnStartTimeout(c)
    \/ \E c \in Calls : WaitTimeout(c)
    \/ \E c \in Calls : RunTurnFinish(c)
    \/ PeerTurnLine

SpecTurn == InitTurn /\ [][NextTurn]_vars

(* ------------------------------------------------------------------ *)
(* SpecLost: runTurn calls on a connection that is lost                *)
(* ------------------------------------------------------------------ *)

\* The turn/start request was rejected other than by its timer (the process
\* exited, or close() finished): runTurn's await rethrows and its finally
\* block removes the three listeners.
RunTurnStartRejected(c) ==
    /\ UNCHANGED <<fvars, kvars, ovars>>
    /\ calls[c].pc = "starting"
    /\ promise[calls[c].req].st = "rejected"
    /\ calls' = [calls EXCEPT ![c] =
                    Settled([calls[c] EXCEPT !.pc = "rejected",
                                             !.error = promise[calls[c].req].err])]
    /\ listeners' = listeners \ RunTurnListeners(c)
    /\ UNCHANGED <<tvars, pvars, cvars, completedTurns, waitTimers>>

\* What the peer may write in SpecLost: answers to turn/start and the terminal
\* notifications.
TerminalNotifications == {n \in TurnNotifications : n.method = "turn/completed"}

PeerLostLine ==
    \/ \E line \in TurnResponses : ReadLine(line)
    \/ \E line \in TerminalNotifications :
          notificationsRead < MaxNotifications /\ ReadLine(line)

\* The client's calls of SpecTurn, with the subprocess exiting and the client
\* disconnecting at any moment.
NextLost ==
    \/ \E c \in Calls : RunTurnCall(c)
    \/ \E c \in Calls : RunTurnStarted(c)
    \/ \E c \in Calls : RunTurnStartTimeout(c)
    \/ \E c \in Calls : RunTurnStartRejected(c)
    \/ \E c \in Calls : WaitTimeout(c)
    \/ \E c \in Calls : RunTurnFinish(c)
    \/ PeerLostLine
    \/ StdoutEnd
    \/ ProcessExit
    \/ Disconnect
    \/ CloseAwaitRead
    \/ CloseAwaitExit

SpecLost == InitTurn /\ [][NextLost]_vars

(* ------------------------------------------------------------------ *)
(* SpecLive: one runTurn call and plain requests, with scheduling      *)
(* ------------------------------------------------------------------ *)

\* The deadline of a request that no runTurn call is awaiting elapses.
RequestTimeout(id) ==
    /\ \A c \in Calls : calls[c].pc = "starting" => calls[c].req # id
    /\ Timeout(id)

\* What the peer may write in SpecLive: an answer to a pending request, the
\* terminal notification of turn-1, a notification nobody waits for.
LiveNotifications ==
    {JsonRpcNotification("turn/completed",
                         TurnCompletedParams(Turn("turn-1", "completed", NoTurnError))),
     JsonRpcNotification("thread/started", NoValue)}

PeerLiveLine ==
    /\ nLines <= MaxLines
    /\ \/ \E line \in TurnResponses : ReadLine(line)
       \/ \E line \in LiveNotifications : ReadLine(line)

\* One runTurn call and requests made beside it, while the peer answers, stays
\* silent or writes notifications, the subprocess exits and the client
\* disconnects at any moment.
NextLive ==
    \/ RunTurnCall("A")
    \/ RunTurnStarted("A")
    \/ RunTurnStartTimeout("A")
    \/ RunTurnStartRejected("A")
    \/ WaitTimeout("A")
    \/ RunTurnFinish("A")
    \/ \E method \in RequestMethods : Request(method)
    \/ \E id \in timers : RequestTimeout(id)
    \/ PeerLiveLine
    \/ StdoutEnd
    \/ ProcessExit
    \/ Disconnect
    \/ CloseAwaitRead
    \/ CloseAwaitExit

\* The scheduling: an armed timer fires unless it is cleared, and the
\* continuation of an await runs once the awaited promise has settled.
FairLive ==
    /\ WF_vars(RunTurnStartTimeout("A"))
    /\ WF_vars(WaitTimeout("A"))
    /\ WF_vars(RunTurnStarted("A"))
    /\ WF_vars(RunTurnStartRejected("A"))
    /\ WF_vars(RunTurnFinish("A"))
    /\ \A id \in 1..MaxRequests : WF_vars(RequestTimeout(id))

SpecLive == InitTurn /\ [][NextLive]_vars /\ FairLive

(* ------------------------------------------------------------------ *)
(* SpecReview: one runReview call on a connected client                *)
(* ------------------------------------------------------------------ *)

\* runReview(params) up to its first await: startReview -> request ->
\* transport.request("review/start"). No listener is registered yet.
ReviewCall ==
    /\ UNCHANGED <<fvars, kvars, handlerSeq, received>>
    /\ review.pc = "idle"
    /\ transport = "open"
    /\ request("review/start")
    /\ review' = [review EXCEPT !.pc = "starting", !.req = nextRequestId]
    /\ UNCHANGED <<closed, closeInitiated, messageHandlers, errorHandlers, readLoop,
                   closePc, exited, exitPc, stdinEnded, nLines, late, cvars, avars>>

\* The review/start request resolved: take reviewTurnId from the result,
\* register the item-completed listener, then wait: waitForTurnCompletion takes
\* the turn from the completedTurns cache or subscribes and arms its timer,
\* waitForAnyThreadTurnCompletion subscribes and arms its timer.
ReviewStarted ==
    /\ UNCHANGED <<fvars, kvars, handlerSeq, received>>
    /\ review.pc = "starting"
    /\ promise[review.req].st = "resolved"
    /\ LET reviewTurnId == reviewTurnIdOf(promise[review.req].val)
       IN IF reviewTurnId # "" /\ completedTurns[reviewTurnId] # NoTurn
          THEN /\ completedTurns' = [completedTurns EXCEPT ![reviewTurnId] = NoTurn]
               /\ review' = [review EXCEPT !.pc = "got", !.turnId = reviewTurnId,
                                           !.term = completedTurns[reviewTurnId]]
               /\ listeners' = listeners \cup {<<"_internal:itemCompleted", "R">>}
               /\ UNCHANGED waitTimers
          ELSE /\ listeners' = listeners \cup {<<"_internal:itemCompleted", "R">>,
                                                <<"_internal:turnCompleted", "R">>}
               /\ waitTimers' = waitTimers \cup {"R"}
               /\ review' = [review EXCEPT !.pc = "wait", !.turnId = reviewTurnId]
               /\ UNCHANGED completedTurns
    /\ UNCHANGED <<tvars, pvars, cvars, calls>>

\* The review/start request rejected: runReview rejects with its error before
\* it has registered anything.
ReviewStartRejected ==
    /\ UNCHANGED <<fvars, kvars, handlerSeq, received>>
    /\ review.pc = "starting"
    /\ promise[review.req].st = "rejected"
    /\ review' = [review EXCEPT !.pc = "rejected", !.error = promise[review.req].err]
    /\ UNCHANGED <<tvars, pvars, cvars, avars>>

\* The timer of the review/start request fires while runReview awaits it; the
\* rejection of runReview runs as a microtask of the same timer task.
ReviewStartTimeout ==
    /\ UNCHANGED <<fvars, kvars, handlerSeq, received>>
    /\ review.pc = "starting"
    /\ review.req \in timers
    /\ SetRegistry(requestTimeout(review.req))
    /\ review' = [review EXCEPT
                      !.pc = "rejected",
                      !.error = requestTimeout(review.req).promise[review.req].err]
    /\ UNCHANGED <<nextRequestId, closed, closeInitiated, messageHandlers, errorHandlers,
                   readLoop, closePc, pvars, cvars, avars>>

\* The CompletedReview runReview returns.
completedReviewResult(call) ==
    [turn |-> call.term, reviewText |-> trim(joinLines(call.reviewTexts))]

\* The continuation of runReview after the wait resolved; its finally block
\* removes the item-completed listener.
ReviewFinish ==
    /\ UNCHANGED <<fvars, kvars, handlerSeq, received>>
    /\ review.pc = "got"
    /\ review' = [review EXCEPT !.pc = "resolved", !.result = completedReviewResult(review),
                                !.reviewTexts = <<>>]
    /\ listeners' = listeners \ {<<"_internal:itemCompleted", "R">>}
    /\ UNCHANGED <<tvars, pvars, cvars, completedTurns, waitTimers, calls>>

\* runReview without its finally block on a wait that timed out.
ReviewWaitTimeoutNoFinally ==
    /\ UNCHANGED <<fvars, kvars, handlerSeq, received>>
    /\ "R" \in waitTimers
    /\ waitTimers' = waitTimers \ {"R"}
    /\ review' = [review EXCEPT
                      !.pc = "rejected",
                      !.error = IF review.turnId # ""
                                THEN "Timed out waiting for turn completion: " \o review.turnId
                                ELSE "Timed out waiting for turn completion on thread "
                                         \o ThreadId,
                      !.reviewTexts = <<>>]
    /\ listeners' = listeners \ {<<"_internal:turnCompleted", "R">>}
    /\ UNCHANGED <<tvars, pvars, cvars, completedTurns, calls>>

\* The timer of the wait fires: unsubscribe and reject the wait; runReview's
\* finally block and rejection run as microtasks of the same timer task.
ReviewWaitTimeout ==
    /\ UNCHANGED <<fvars, kvars, handlerSeq, received>>
    /\ "R" \in waitTimers
    /\ waitTimers' = waitTimers \ {"R"}
    /\ review' = [review EXCEPT
                      !.pc = "rejected",
                      !.error = IF review.turnId # ""
                                THEN "Timed out waiting for turn completion: " \o review.turnId
                                ELSE "Timed out waiting for turn completion on thread "
                                         \o ThreadId,
                      !.reviewTexts = <<>>]
    /\ listeners' = listeners \ {<<"_internal:itemCompleted", "R">>,
                                  <<"_internal:turnCompleted", "R">>}
    /\ UNCHANGED <<tvars, pvars, cvars, completedTurns, calls>>

ReviewItem(type, id, text) == [type |-> type, id |-> id, text |-> "", review |-> text]

\* What the peer may answer to a pending review/start: a result naming the
\* review's turn, a result that names none, or an error.
ReviewResponses ==
    UNION {{JsonRpcResponse(id, [type |-> "object", turnId |-> "turn-1"]),
            JsonRpcResponse(id, [type |-> "object"]),
            JsonRpcErrorResponse(id, [code |-> RpcErrorCode, message |-> "no review"])} :
           id \in pending}

\* The notifications of SpecReview: review items of turn-1 with a text, a text
\* that ends in a space and an empty text, a review item of turn-2, an item of
\* another type that carries a review text, and terminal turns of turn-1
\* (completed and failed), of turn-2 and of another thread.
ReviewNotifications ==
    {JsonRpcNotification("item/completed",
        ItemParams("turn-1", ReviewItem("enteredReviewMode", "item-1", <<CharDigit>>))),
     JsonRpcNotification("item/completed",
        ItemParams("turn-1", ReviewItem("exitedReviewMode", "item-2", <<CharE9, CharSP>>))),
     JsonRpcNotification("item/completed",
        ItemParams("turn-1", ReviewItem("exitedReviewMode", "item-3", <<>>))),
     JsonRpcNotification("item/completed",
        ItemParams("turn-2", ReviewItem("enteredReviewMode", "item-4", <<CharE9>>))),
     JsonRpcNotification("item/completed",
        ItemParams("turn-1", ReviewItem("agentMessage", "item-5", <<CharDigit, CharDigit>>))),
     JsonRpcNotification("turn/completed",
        TurnCompletedParams(Turn("turn-1", "completed", NoTurnError))),
     JsonRpcNotification("turn/completed",
        TurnCompletedParams(Turn("turn-1", "failed", TurnError("boom")))),
     JsonRpcNotification("turn/completed",
        TurnCompletedParams(Turn("turn-2", "completed", NoTurnError))),
     JsonRpcNotification("turn/completed",
        [type |-> "object", threadId |-> "thread-2",
         turn |-> Turn("turn-2", "completed", NoTurnError)])}

PeerReviewLine ==
    \/ \E line \in ReviewResponses : ReadLine(line)
    \/ \E line \in ReviewNotifications :
          notificationsRead < MaxNotifications /\ ReadLine(line)

NextReview ==
    \/ ReviewCall
    \/ ReviewStarted
    \/ ReviewStartRejected
    \/ ReviewStartTimeout
    \/ ReviewFinish
    \/ ReviewWaitTimeout
    \/ PeerReviewLine

SpecReview == InitTurn /\ [][NextReview]_vars

(* ------------------------------------------------------------------ *)
(* SpecCleanup: a runTurn call and a runReview call side by side       *)
(* ------------------------------------------------------------------ *)

\* Lines that are JSON and no JSON-RPC message: the object {}, a number, null.
OddFrames == {EmptyObject, JsonValue("number", "1"), JsonValue("null", "null")}

\* The peer answers the start requests with a result or an error and writes
\* terminal notifications and lines that are no JSON-RPC message.
PeerCleanupLine ==
    \/ \E line \in TurnResponses \cup ReviewResponses : ReadLine(line)
    \/ \E line \in TerminalNotifications \cup OddFrames :
          nLines <= MaxLines + 1 /\ ReadLine(line)

\* One runTurn call and one runReview call, each leaving by any of its exits.
NextCleanup ==
    \/ RunTurnCall("A")
    \/ RunTurnStarted("A")
    \/ RunTurnStartTimeout("A")
    \/ RunTurnStartRejected("A")
    \/ WaitTimeout("A")
    \/ RunTurnFinish("A")
    \/ ReviewCall
    \/ ReviewStarted
    \/ ReviewStartRejected
    \/ ReviewStartTimeout
    \/ ReviewFinish
    \/ ReviewWaitTimeout
    \/ PeerCleanupLine

SpecCleanup == InitTurn /\ [][NextCleanup]_vars

(* ------------------------------------------------------------------ *)
(* SpecAggregate: what one runTurn call aggregates                     *)
(* ------------------------------------------------------------------ *)

\* The notifications of SpecAggregate, all of turn-1: agent-message items
\* completed with an empty text and with a text, an item of another kind,
\* deltas of two items, two diff updates, and the terminal turn.
AggregateNotifications ==
    {JsonRpcNotification("item/completed",
        ItemParams("turn-1", ThreadItem("agentMessage", "item-1", ""))),
     JsonRpcNotification("item/completed", ItemParams("turn-1", HelloItem)),
     JsonRpcNotification("item/completed",
        ItemParams("turn-1", ThreadItem("agentMessage", "item-3", "done"))),
     JsonRpcNotification("item/completed", ItemParams("turn-1", CommandItem)),
     JsonRpcNotification("item/agentMessage/delta", DeltaParams("turn-1", "item-1", "he")),
     JsonRpcNotification("item/agentMessage/delta", DeltaParams("turn-1", "item-2", "y")),
     JsonRpcNotification("turn/diff/updated", DiffParams("turn-1", "diff-1a")),
     JsonRpcNotification("turn/diff/updated", DiffParams("turn-1", "diff-1b")),
     JsonRpcNotification("turn/completed",
        TurnCompletedParams(Turn("turn-1", "completed", NoTurnError)))}

PeerAggregateLine ==
    \/ \E id \in pending : ReadLine(JsonRpcResponse(id, TurnStartResult("turn-1")))
    \/ \E line \in AggregateNotifications :
          notificationsRead <= MaxNotifications /\ ReadLine(line)

NextAggregate ==
    \/ RunTurnCall("A")
    \/ RunTurnStarted("A")
    \/ RunTurnFinish("A")
    \/ PeerAggregateLine

SpecAggregate == InitTurn /\ [][NextAggregate]_vars

(* ------------------------------------------------------------------ *)
(* SpecShapes: notifications whose payload has the wrong shape         *)
(* ------------------------------------------------------------------ *)

\* Notifications the validators accept, all of turn-1.
ShapedNotifications ==
    {JsonRpcNotification("item/completed", ItemParams("turn-1", HelloItem)),
     JsonRpcNotification("item/agentMessage/delta", DeltaParams("turn-1", "item-1", "he")),
     JsonRpcNotification("turn/diff/updated", DiffParams("turn-1", "diff-1a")),
     JsonRpcNotification("thread/started",
        [type |-> "object", thread |-> [type |-> "object", id |-> ThreadId]]),
     JsonRpcNotification("turn/completed",
        TurnCompletedParams(Turn("turn-1", "completed", NoTurnError)))}

\* Notifications the validator of their method turns down: a turn/completed
\* whose turn has no items array, one without a thread id, an item/completed
\* whose item has no id, a delta without a text, a diff update without a
\* thread id, one without params, and a thread/started without a thread.
MalformedNotifications ==
    {JsonRpcNotification("turn/completed",
        [type |-> "object", threadId |-> ThreadId,
         turn |-> [type |-> "object", id |-> "turn-1", status |-> "completed"]]),
     JsonRpcNotification("turn/completed",
        [type |-> "object", turn |-> Turn("turn-1", "completed", NoTurnError)]),
     JsonRpcNotification("item/completed",
        [type |-> "object", threadId |-> ThreadId, turnId |-> "turn-1",
         item |-> [type |-> "agentMessage", text |-> "hello world"]]),
     JsonRpcNotification("item/agentMessage/delta",
        [type |-> "object", threadId |-> ThreadId, turnId |-> "turn-1",
         itemId |-> "item-1"]),
     JsonRpcNotification("turn/diff/updated",
        [type |-> "object", turnId |-> "turn-1", diff |-> "diff-1a"]),
     JsonRpcNotification("turn/diff/updated", Null),
     JsonRpcNotification("thread/started", [type |-> "object"])}

\* The peer answers the turn/start request and, while the call is starting or
\* waiting, writes notifications of either kind.
PeerShapesLine ==
    \/ \E id \in pending : ReadLine(JsonRpcResponse(id, TurnStartResult("turn-1")))
    \/ \E line \in ShapedNotifications \cup MalformedNotifications :
          /\ calls["A"].pc \in {"starting", "wait"}
          /\ notificationsRead <= MaxNotifications
          /\ ReadLine(line)

NextShapes ==
    \/ RunTurnCall("A")
    \/ RunTurnStarted("A")
    \/ RunTurnFinish("A")
    \/ PeerShapesLine

SpecShapes == InitTurn /\ [][NextShapes]_vars

(* ------------------------------------------------------------------ *)
(* SpecRouter: message handlers subscribed beside the client's         *)
(* ------------------------------------------------------------------ *)

\* transport.onMessage(h), called while no message is being dispatched.
Subscribe(h) ==
    /\ UNCHANGED <<fvars, kvars, received, review>>
    /\ h \notin messageHandlers
    /\ handlerSeq' = SetAdd(handlerSeq, h)
    /\ messageHandlers' = messageHandlers \cup {h}
    /\ UNCHANGED <<nextRequestId, pending, timers, promise, closed, closeInitiated,
                   errorHandlers, readLoop, closePc, pvars, cvars, avars>>

\* The function onMessage(h) returned is called: messageHandlers.delete(h).
Unsubscribe(h) ==
    /\ UNCHANGED <<fvars, kvars, received, review>>
    /\ h \in messageHandlers
    /\ handlerSeq' = SetDelete(handlerSeq, h)
    /\ messageHandlers' = messageHandlers \ {h}
    /\ UNCHANGED <<nextRequestId, pending, timers, promise, closed, closeInitiated,
                   errorHandlers, readLoop, closePc, pvars, cvars, avars>>

\* The peer writes a notification and readLoop reads it.
PeerNotification ==
    /\ nLines <= MaxLines
    /\ \E line \in LiveNotifications : ReadLine(line)

\* A connected client whose transport other handlers subscribe to and
\* unsubscribe from, between the notifications read and while one is dispatched.
NextRouter ==
    \/ \E h \in UserHandlers : Subscribe(h)
    \/ \E h \in UserHandlers : Unsubscribe(h)
    \/ PeerNotification

SpecRouter == InitTurn /\ [][NextRouter]_vars

(* ------------------------------------------------------------------ *)
(* readLoop: decoding and line splitting                               *)
(* ------------------------------------------------------------------ *)

\* The bytes of the model: line feed, space, the digit 1, and the two bytes of
\* the UTF-8 encoding of U+00E9; TextDecoder produces the characters from them.
ByteLF == "0A"
ByteSP == "20"
ByteDigit == "31"
ByteLead == "C3"
ByteCont == "A9"
Bytes == {ByteLF, ByteSP, ByteDigit, ByteLead, ByteCont}

asciiChar(b) == IF b = ByteLF THEN CharLF ELSE IF b = ByteSP THEN CharSP ELSE CharDigit

\* One byte through the UTF-8 decoder; d = [pending, chars]. A byte that cannot
\* continue the pending lead byte yields U+FFFD and is decoded again on its own.
RECURSIVE decodeByte(_, _)
decodeByte(d, b) ==
    IF d.pending = <<>>
    THEN IF b = ByteLead THEN [d EXCEPT !.pending = <<b>>]
         ELSE IF b = ByteCont THEN [d EXCEPT !.chars = Append(@, CharReplacement)]
         ELSE [d EXCEPT !.chars = Append(@, asciiChar(b))]
    ELSE IF b = ByteCont THEN [pending |-> <<>>, chars |-> Append(d.chars, CharE9)]
         ELSE decodeByte([pending |-> <<>>, chars |-> Append(d.chars, CharReplacement)], b)

RECURSIVE decodeBytes(_, _)
decodeBytes(d, chunk) ==
    IF chunk = <<>> THEN d ELSE decodeBytes(decodeByte(d, Head(chunk)), Tail(chunk))

\* Mutant: decode(value) without { stream: true }: an incomplete character at the
\* end of the chunk is flushed as U+FFFD.
decodeFlushing(held, chunk) ==
    LET d == decodeBytes([pending |-> held, chars |-> <<>>], chunk)
    IN IF d.pending = <<>> THEN d
       ELSE [pending |-> <<>>, chars |-> Append(d.chars, CharReplacement)]

\* this.decoder.decode(value, { stream: true }): the characters decoded and the
\* bytes the decoder keeps for the next call.
decode(held, chunk) == decodeBytes([pending |-> held, chars |-> <<>>], chunk)

\* buffer.indexOf("\n"), counted from 1; 0 where there is none.
indexOfNewline(str) ==
    IF \E i \in 1..Len(str) : str[i] = CharLF
    THEN CHOOSE i \in 1..Len(str) : str[i] = CharLF /\ \A j \in 1..(i - 1) : str[j] # CharLF
    ELSE 0

\* JSON.parse accepts a line of these characters when it is a number.
parses(line) == \A i \in 1..Len(line) : line[i] = CharDigit

\* handleLine(line) throws: a parsed number makes isJsonRpcResponse throw
\* ("id" in message), an unparsable line throws when the error handler does.
handleLineThrows(line) == IF parses(line) THEN TRUE ELSE emitErrorThrows

\* The frame of readLoop: its decoder, its buffer, the lines it has handed to
\* handleLine, and whether a handleLine call threw.
Frame == [decoder |-> decoder, buffer |-> buffer, handled |-> handled,
          crashed |-> readLoop = "crashed"]

NewFrame == [decoder |-> <<>>, buffer |-> <<>>, handled |-> <<>>, crashed |-> FALSE]

\* if (line.length > 0) this.handleLine(line)
handOver(fr, line) ==
    IF line = <<>> THEN fr
    ELSE [fr EXCEPT !.handled = Append(@, line), !.crashed = handleLineThrows(line)]

\* The inner while loop: split off and hand over every complete line.
RECURSIVE splitLines(_)
splitLines(fr) ==
    LET newline == indexOfNewline(fr.buffer)
    IN IF fr.crashed \/ newline = 0 THEN fr
       ELSE splitLines(handOver(
                [fr EXCEPT !.buffer = SubSeq(fr.buffer, newline + 1, Len(fr.buffer))],
                trim(SubSeq(fr.buffer, 1, newline - 1))))

\* One iteration of the outer loop on a chunk.
readChunk(fr, chunk) ==
    LET d == decode(fr.decoder, chunk)
    IN splitLines([fr EXCEPT !.decoder = d.pending, !.buffer = fr.buffer \o d.chars])

\* After the loop: the remainder of the buffer is handed over as a last line.
readTail(fr) == handOver(fr, trim(fr.buffer))

SetFrame(fr, finished) ==
    /\ decoder' = fr.decoder
    /\ buffer' = fr.buffer
    /\ handled' = fr.handled
    /\ readLoop' = IF fr.crashed THEN "crashed" ELSE IF finished THEN "done" ELSE "reading"
    /\ nLines' = nLines + (Len(fr.handled) - Len(handled))

\* The errors emitError was called with for the lines handed over.
RECURSIVE parseErrors(_)
parseErrors(lines) ==
    IF lines = <<>> THEN <<>>
    ELSE IF parses(Head(lines)) THEN parseErrors(Tail(lines))
         ELSE <<"Failed to parse JSON-RPC line">> \o parseErrors(Tail(lines))

SetErrors(fr) ==
    LET errors == parseErrors(SubSeq(fr.handled, Len(handled) + 1, Len(fr.handled)))
    IN /\ errorSignals' = errorSignals + Len(errors) * Cardinality(errorHandlers)
       /\ lastError' = IF errors = <<>> \/ errorHandlers = {} THEN lastError
                       ELSE errors[Len(errors)]

\* Where the boundary after byte n of stdout falls.
cutKinds(n) ==
    IF n >= Len(stdout) THEN {}
    ELSE (IF stdout[n] # ByteLF THEN {"line"} ELSE {})
         \cup (IF stdout[n] = ByteLead /\ stdout[n + 1] = ByteCont THEN {"char"} ELSE {})

\* reader.read() resolves with the next n bytes and the loop body runs on them.
ReadChunk(n) ==
    /\ readLoop = "reading"
    /\ nRead + n <= Len(stdout)
    /\ nRead' = nRead + n
    /\ cuts' = cuts \cup cutKinds(nRead + n)
    /\ LET fr == readChunk(Frame, SubSeq(stdout, nRead + 1, nRead + n))
       IN SetFrame(fr, FALSE) /\ SetErrors(fr)
    /\ UNCHANGED <<nextRequestId, pending, timers, promise, closed, closeInitiated,
                   messageHandlers, errorHandlers, closePc, exited, exitPc, stdin,
                   stdinEnded, late, transport, connectPc, errorListener, nDelivered,
                   avars, stdout, kvars, ovars>>

\* reader.read() resolves with done: the loop ends and the tail is handed over.
ReadEnd ==
    /\ readLoop = "reading"
    /\ nRead = Len(stdout)
    /\ LET fr == readTail(Frame)
       IN SetFrame(fr, TRUE) /\ SetErrors(fr)
    /\ UNCHANGED <<nextRequestId, pending, timers, promise, closed, closeInitiated,
                   messageHandlers, errorHandlers, closePc, exited, exitPc, stdin,
                   stdinEnded, late, transport, connectPc, errorListener, nDelivered,
                   avars, stdout, nRead, cuts, kvars, ovars>>

(* ------------------------------------------------------------------ *)
(* SpecFramer: the read loop on a byte stream cut into chunks          *)
(* ------------------------------------------------------------------ *)

RECURSIVE ByteStreams(_)
ByteStreams(n) ==
    IF n = 0 THEN {<<>>}
    ELSE ByteStreams(n - 1) \cup
         {Append(str, b) : str \in {x \in ByteStreams(n - 1) : Len(x) = n - 1}, b \in Bytes}

\* A connected client whose subprocess will write some byte stream; the bytes
\* make up no JSON-RPC message, so no line reaches the message handlers.
InitFramer ==
    /\ Connected
    /\ errorListener \in BOOLEAN
    /\ stdout \in ByteStreams(MaxBytes)
    /\ nRead = 0
    /\ decoder = <<>>
    /\ buffer = <<>>
    /\ handled = <<>>
    /\ cuts = {}

NextFramer ==
    \/ \E n \in 1..MaxBytes : ReadChunk(n)
    \/ ReadEnd

SpecFramer == InitFramer /\ [][NextFramer]_vars

(* ------------------------------------------------------------------ *)
(* Claims checked under Spec                                           *)
(* ------------------------------------------------------------------ *)

TimeoutError(id) == "Request timed out for method " \o promise[id].method

TimedOut(id) ==
    /\ id \in DOMAIN promise
    /\ promise[id].st = "rejected"
    /\ promise[id].err = TimeoutError(id)

\* C1: a response carrying id k settles exactly the pending request sent with id
\* k: that request leaves the registry, resolved with the response's result (or
\* rejected with its error), and no other request's promise changes, whatever the
\* order of responses. Every pending id is the id of the request line written
\* for it.
C1_ResponseSettlesItsRequest ==
    [][/\ \A line \in Lines :
            (isJsonRpcResponse(line) /\ ReadLine(line)) =>
                /\ \A j \in DOMAIN promise : j # line.id => promise'[j] = promise[j]
                /\ pending' = pending \ {line.id}
                /\ line.id \in pending =>
                     /\ promise'[line.id].calls = 1
                     /\ line.error = NoError =>
                          /\ promise'[line.id].st = "resolved"
                          /\ promise'[line.id].val = line.result
                     /\ line.error # NoError => promise'[line.id].st = "rejected"
       /\ \A k \in pending' :
            \E i \in 1..Len(stdin') : stdin'[i] = JsonRpcRequest(promise'[k].method, k)
      ]_vars

\* C1 witness: the response for id 1 was read and resolved request 1 while the
\* earlier request 0 is still pending.
C1_Witness ==
    /\ 0 \in pending
    /\ 1 \in DOMAIN promise
    /\ promise[1].st = "resolved"
    /\ promise[1].val \in Results

\* C2: resolve / reject of a request's promise is invoked at most once; a settled
\* request has no entry and no armed timer, an unsettled one has both.
C2_SettledAtMostOnce ==
    \A id \in DOMAIN promise :
        /\ promise[id].calls <= 1
        /\ promise[id].st = "pending" <=> promise[id].calls = 0
        /\ promise[id].st = "pending" <=> id \in pending
        /\ id \in timers <=> id \in pending

\* C2 witness: a request settled by its response, a second response for its id
\* read later, and close() having run its rejectAllPending after both.
C2_Witness ==
    \E id \in DOMAIN promise :
        /\ promise[id].st = "resolved"
        /\ promise[id].calls = 1
        /\ id \in late
        /\ closePc = "done"

\* C3: when the deadline of a request elapses it is rejected with the timeout
\* error naming its method and leaves the registry; a response for that id read
\* afterwards changes nothing in the registry and does not stop the read loop.
C3_TimeoutThenLateResponse ==
    [][/\ \A id \in timers :
            Timeout(id) =>
                /\ promise'[id].st = "rejected"
                /\ promise'[id].err = TimeoutError(id)
                /\ id \notin pending'
       /\ \A line \in Lines :
            (isJsonRpcResponse(line) /\ TimedOut(line.id) /\ ReadLine(line)) =>
                /\ UNCHANGED <<pending, timers, promise>>
                /\ readLoop' = "reading"
      ]_vars

\* C3 witness: a request rejected by its deadline for which a response was read
\* afterwards.
C3_Witness ==
    \E id \in DOMAIN promise : TimedOut(id) /\ id \in late /\ readLoop = "reading"

\* C4: when the process exits and close() was not initiated, every request
\* pending then is rejected with the 'exited unexpectedly' error by one reject
\* call and the registry is empty; a rejected request never changes again.
C4_UnexpectedExitRejectsPending ==
    [][/\ (ProcessExit /\ ~closeInitiated) =>
            /\ pending' = {}
            /\ timers' = {}
            /\ \A id \in pending :
                 /\ promise'[id].st = "rejected"
                 /\ promise'[id].err = exitError
                 /\ promise'[id].calls = 1
       /\ \A id \in DOMAIN promise :
            promise[id].st = "rejected" => promise'[id] = promise[id]
      ]_vars

\* C4 witness: two requests rejected by the unexpected exit, and a response for
\* one of them read afterwards.
C4_Witness ==
    /\ exited
    /\ ~closeInitiated
    /\ \A id \in {0, 1} :
         id \in DOMAIN promise /\ promise[id].st = "rejected" /\ promise[id].err = exitError
    /\ 1 \in late

\* C10: a line that is not JSON raises one error signal, settles nothing,
\* delivers nothing to the message handlers, and the read loop keeps reading.
C10_ParseErrorIsNotFatal ==
    [][ReadLine(InvalidLine) =>
          /\ errorSignals' = errorSignals + 1
          /\ UNCHANGED <<pending, timers, promise, nDelivered, avars>>
          /\ readLoop' = "reading"
      ]_vars


\* C11: shutdown is idempotent. A call of close() on a transport that is already
\* closed, or of disconnect() on a client that is closed or already disconnected,
\* does not end stdin again, rejects no request (pending or already settled) and
\* starts no second wait; stdin is ended at most once.
C11_ShutdownIdempotent ==
    [][/\ (closed /\ (CloseAgain \/ Disconnect)) =>
            /\ stdinEnded' = stdinEnded
            /\ promise' = promise
            /\ pending' = pending
            /\ closePc' = closePc
            /\ closed'
       /\ stdinEnded' <= 1]_vars

\* A second shutdown call was made while one request had resolved and another
\* was still pending.
C11_Witness ==
    /\ reclosed
    /\ stdinEnded = 1
    /\ pending # {}
    /\ \E id \in DOMAIN promise : promise[id].st = "resolved"

initialized == JsonRpcNotification("initialized", NoValue)

\* C12: the handshake runs in order. The first line connect() writes is the
\* initialize request; the initialized notification, which carries no params, is
\* written at most once, after it, and only when initialize has resolved; when
\* initialize is rejected connect() rejects with that error and the notification
\* is never written.
C12_HandshakeInOrder ==
    /\ stdin # <<>> => stdin[1] = JsonRpcRequest("initialize", 0)
    /\ \A i \in DOMAIN stdin :
           stdin[i].method = "initialized" =>
               /\ stdin[i] = initialized
               /\ i > 1
               /\ promise[0].st = "resolved"
               /\ connectPc = "connected"
               /\ \A j \in DOMAIN stdin : stdin[j].method = "initialized" => j = i
    /\ connectPc = "connected" => \E i \in DOMAIN stdin : stdin[i] = initialized
    /\ (connectPc = "failed" /\ promise[0].st = "rejected") =>
           /\ connectError = promise[0].err
           /\ connectError # ""
    /\ connectPc \in {"idle", "initializing", "connected"} => connectError = ""

\* connect() rejected with the peer's error answer to initialize.
C12_Witness ==
    /\ connectPc = "failed"
    /\ connectError = formatJsonRpcError(PeerError)
    /\ \A i \in DOMAIN stdin : stdin[i].method # "initialized"

\* C13: no request other than initialize is written before the handshake has
\* completed: every other request line on stdin follows the initialized
\* notification.
C13_NoRequestBeforeHandshake ==
    \A i \in DOMAIN stdin :
        stdin[i].method \notin {"initialize", "initialized"} =>
            \E j \in 1..(i - 1) : stdin[j] = initialized

\* C14: a process exit while no close() has been initiated invokes every
\* registered error handler with the exit error; a process exit after close() was
\* initiated invokes none, and nothing is left to run for it afterwards.
C14_ExitSignalsObservers ==
    [][ProcessExit =>
          IF closeInitiated
          THEN /\ errorSignals' = errorSignals
               /\ lastError' = lastError
               /\ exitPc' = "done"
          ELSE /\ errorSignals' = errorSignals + Cardinality(errorHandlers)
               /\ errorHandlers # {} => lastError' = exitError]_vars

\* The process exited with no close() initiated and the client's error handler
\* was invoked with the exit error.
C14_Witness ==
    /\ exited
    /\ ~closeInitiated
    /\ "client" \in errorHandlers
    /\ errorSignals = 1
    /\ lastError = exitError

\* C15: disconnect() kills the subprocess: while the client is disconnected and
\* the subprocess has not exited, process.kill() has been called, so that the
\* wait of close() for the exit does not depend on the subprocess.
C15_DisconnectKills ==
    (connectPc # "idle" /\ transport = "none" /\ ~exited) => kills >= 1

\* C16: correlation ids are assigned 0, 1, 2, ... in call order. Every call of
\* request() takes the id equal to the number of calls before it, an id no
\* earlier request holds, whether or not the request could be sent; the first
\* one is the initialize request; the ids of the request lines on stdin are
\* strictly increasing; a request keeps its id and method once assigned.
C16_IdsInCallOrder ==
    [][/\ (Connect \/ \E method \in RequestMethods : Request(method)) =>
            /\ nextRequestId \notin DOMAIN promise
            /\ nextRequestId' = nextRequestId + 1
            /\ DOMAIN promise' = DOMAIN promise \cup {nextRequestId}
            /\ promise'[nextRequestId].calls = 0 <=> ~closed
       /\ DOMAIN promise' = 0..(nextRequestId' - 1)
       /\ \A id \in DOMAIN promise :
              id \in DOMAIN promise' /\ promise'[id].method = promise[id].method
       /\ 0 \in DOMAIN promise' => promise'[0].method = "initialize"
       /\ \A i, j \in DOMAIN stdin' :
              (i < j /\ "id" \in stdin'[i].keys /\ "id" \in stdin'[j].keys) =>
                  stdin'[i].id < stdin'[j].id]_vars

\* Request 0 timed out and request 1, made on the closed transport, could not
\* be sent: it still took the next id.
C16_Witness ==
    /\ TimedOut(0)
    /\ 1 \in DOMAIN promise
    /\ promise[1].st = "rejected"
    /\ promise[1].err = "transport is closed"
    /\ Len(stdin) = 1

\* C17: a response carrying an error object rejects the pending request with
\* its id with the error "<code>: <message>" built from the peer's code and
\* message, also when the response carries a result as well; the request is not
\* resolved with a value then or later.
C17_ErrorResponseRejects ==
    [][/\ \A line \in Lines :
            (isJsonRpcResponse(line) /\ line.error # NoError /\ line.id \in pending
                /\ ReadLine(line)) =>
                /\ promise'[line.id].st = "rejected"
                /\ promise'[line.id].err =
                       ToString(line.error.code) \o ": " \o line.error.message
                /\ promise'[line.id].val = NoValue
                /\ line.id \notin pending'
       /\ \A id \in DOMAIN promise :
              promise[id].st = "rejected" => promise'[id] = promise[id]]_vars

\* Request 1 was rejected by a response that carried both an error and a result.
C17_Witness ==
    /\ 1 \in DOMAIN promise
    /\ promise[1].st = "rejected"
    /\ promise[1].err = "32603: partial"
    /\ promise[1].val = NoValue

\* Request k fails by itself in this step: its deadline elapses, or a response
\* with an error member is read for it.
FailsAlone(k) ==
    \/ Timeout(k)
    \/ \E line \in Lines :
          /\ isJsonRpcResponse(line) /\ line.error # NoError
          /\ line.id = k /\ k \in pending
          /\ ReadLine(line)

\* C18: a per-call failure is scoped to that call. When request k times out or
\* receives an error response, only k leaves the registry and only k's timer is
\* disarmed, every other promise is untouched, and the transport is neither
\* closed nor stopped reading; a request made while the transport is not
\* closed is registered and written whatever failed before it.
C18_FailureScopedToCall ==
    [][/\ \A k \in DOMAIN promise :
            FailsAlone(k) =>
                /\ promise'[k].st = "rejected"
                /\ pending' = pending \ {k}
                /\ timers' = timers \ {k}
                /\ \A j \in DOMAIN promise \ {k} : promise'[j] = promise[j]
                /\ closed' = closed /\ closeInitiated' = closeInitiated
                /\ readLoop' = readLoop /\ closePc' = closePc
                /\ stdinEnded' = stdinEnded /\ transport' = transport
       /\ ((\E method \in RequestMethods : Request(method)) /\ ~closed) =>
            /\ nextRequestId \in pending' /\ nextRequestId \in timers'
            /\ stdin' = Append(stdin, stdin'[Len(stdin')])
            /\ stdin'[Len(stdin')].id = nextRequestId]_vars

\* Request 0 timed out; request 1 got its result and the transport is open and
\* reading.
C18_Witness ==
    /\ TimedOut(0)
    /\ 1 \in DOMAIN promise
    /\ promise[1].st = "resolved"
    /\ ~closed
    /\ readLoop = "reading"

\* C19: after an unexpected process exit the transport is unusable: a request
\* made on it is rejected in the call, is not written to stdin and gets no entry
\* in the pending Map.
C19_UnusableAfterExit ==
    [][((\E method \in RequestMethods : Request(method)) /\ exited /\ ~closed) =>
          /\ promise'[nextRequestId].st = "rejected"
          /\ nextRequestId \notin pending'
          /\ stdin' = stdin]_vars

\* C22: a failure of the read of stdout while no close() has been initiated
\* rejects every pending request and invokes every error handler, as an
\* unexpected process exit does.
C22_StreamFailureRejectsPending ==
    [][(StdoutError /\ ~closeInitiated) =>
          /\ pending' = {}
          /\ \A id \in pending : promise'[id].st = "rejected"
          /\ errorSignals' = errorSignals + Cardinality(errorHandlers)]_vars

ClosedError(id) == promise[id].st = "rejected" /\ promise[id].err = "transport closed"

\* C23: close() runs its steps in order. It waits for the process only after
\* stdin was ended and the read loop has returned, and it has finished only
\* after the process has exited; a request is rejected with "transport closed"
\* only by that last step, which rejects every request still pending; a process
\* exit after close() was initiated rejects nothing.
C23_CloseInOrder ==
    [][/\ closePc' \in {"awaitExit", "done"} =>
            stdinEnded' = 1 /\ readLoop' \in {"done", "crashed"}
       /\ closePc' = "done" => exited' /\ pending' = {}
       /\ \A id \in DOMAIN promise :
              (~ClosedError(id) /\ ClosedError(id)') =>
                  /\ CloseAwaitExit
                  /\ exited /\ readLoop \in {"done", "crashed"} /\ stdinEnded = 1
                  /\ id \in pending
       /\ CloseAwaitExit => \A id \in pending : ClosedError(id)'
       /\ (ProcessExit /\ closeInitiated) => promise' = promise /\ pending' = pending]_vars

\* close() has finished after the process exited during it: a request was
\* rejected with "transport closed" and no error was signalled.
C23_Witness ==
    /\ closePc = "done"
    /\ \E id \in DOMAIN promise : ClosedError(id)
    /\ errorSignals = 0
    /\ exited

\* C37: an exception raised while a line is dispatched to the observers does
\* not stop the read path: whatever line is read and whichever handler throws
\* on it (the client's error handler does when the user registered no 'error'
\* listener), the read loop is still reading afterwards, and a response read
\* next still settles the request with its id.
C37_ObserverExceptionContained ==
    [][\A line \in Lines :
          ReadLine(line) =>
              /\ readLoop' = "reading"
              /\ (isJsonRpcResponse(line) /\ line.id \in pending) =>
                     promise'[line.id].st # "pending"]_vars

(* ------------------------------------------------------------------ *)
(* Claims checked under SpecTurn                                       *)
(* ------------------------------------------------------------------ *)

\* The items among a sequence of heard payloads, in arrival order.
RECURSIVE heardItems(_)
heardItems(h) ==
    IF h = <<>> THEN <<>>
    ELSE IF Head(h).kind = "item"
         THEN <<Head(h).payload.item>> \o heardItems(Tail(h))
         ELSE heardItems(Tail(h))

\* The texts per item id that a sequence of heard payloads adds up to.
RECURSIVE heardTexts(_)
heardTexts(h) ==
    IF h = <<>> THEN <<>>
    ELSE LET before == heardTexts(SubSeq(h, 1, Len(h) - 1))
             e == h[Len(h)]
         IN IF e.kind = "delta" THEN appendText(before, e.payload.itemId, e.payload.text)
            ELSE IF e.kind = "item" /\ e.payload.item.type = "agentMessage"
                 THEN appendText(before, e.payload.item.id, e.payload.item.text)
                 ELSE before

\* The diff of the last diff payload among a sequence of heard payloads.
RECURSIVE heardDiff(_)
heardDiff(h) ==
    IF h = <<>> THEN NoDiff
    ELSE IF h[Len(h)].kind = "diff"
         THEN [has |-> TRUE, diff |-> h[Len(h)].payload.diff]
         ELSE heardDiff(SubSeq(h, 1, Len(h) - 1))

\* C5: whatever the interleaving of the notifications of two runTurn calls in
\* flight on different turn ids, the items, the agent message and the diff of a
\* call's result are those of the payloads bearing the call's own turn id and of
\* no other payload it heard, and a call leaves its wait only with a terminal
\* turn bearing its own turn id.
C5_ResultFromOwnTurnOnly ==
    [][\A c \in Calls :
         /\ calls'[c].pc = "got" => calls'[c].term.id = calls'[c].turn.id
         /\ RunTurnFinish(c) /\ calls'[c].pc = "resolved" =>
              LET own == ownHeard(calls[c])
              IN /\ calls'[c].result.items = heardItems(own)
                 /\ calls'[c].result.agentMessage =
                        extractAgentMessage(heardItems(own), heardTexts(own))
                 /\ calls'[c].result.diff = heardDiff(own)
                 /\ calls'[c].result.turn.id = calls[c].turn.id]_vars

\* Both calls resolved on different turn ids; one result holds an item, a
\* message and a diff, the other holds none although its listeners heard
\* payloads of the first call's turn.
C5_Witness ==
    \E a, b \in Calls :
        /\ calls[a].pc = "resolved" /\ calls[b].pc = "resolved"
        /\ calls[a].result.turn.id # calls[b].result.turn.id
        /\ calls[a].result.items # <<>>
        /\ calls[b].foreign > 0
        /\ calls[b].result.items = <<>>
        /\ calls[b].result.agentMessage = ""
        /\ calls[b].result.diff = NoDiff

\* C6: a runTurn call is never left waiting for a terminal notification of its
\* turn that was already read: while it waits, no turn/completed of its turn id
\* was dispatched since the call began and none sits in the completedTurns cache;
\* a call holding a terminal turn holds one of its own turn id, taken from the
\* cache when it was read before the wait began.
C6_TerminalNeverMissed ==
    \A c \in Calls :
        /\ calls[c].pc = "wait" =>
              /\ calls[c].cut[calls[c].turn.id] = <<>>
              /\ completedTurns[calls[c].turn.id] = NoTurn
        /\ calls[c].pc = "got" =>
              /\ calls[c].term.id = calls[c].turn.id
              /\ calls[c].term.status \in {"completed", "failed"}
              /\ ~calls[c].fromCache => <<"_internal:turnCompleted", c>> \notin listeners

\* A call holds the terminal turn it took from the cache: the notification was
\* read after the call began and before its wait.
C6_Witness ==
    \E c \in Calls :
        /\ calls[c].pc = "got"
        /\ calls[c].fromCache
        /\ calls[c].cut[calls[c].turn.id] # <<>>
        /\ calls[c].term.id = calls[c].turn.id

\* C7: a call whose terminal turn has status "failed" is rejected with the error
\* message the peer supplied ("boom"), and no call resolves with a result whose
\* turn has status "failed".
C7_FailedTurnRejects ==
    \A c \in Calls :
        /\ calls[c].term.status = "failed" =>
              /\ calls[c].pc \in {"got", "rejected"}
              /\ calls[c].pc = "rejected" =>
                    /\ calls[c].term.error.has
                    /\ calls[c].error = calls[c].term.error.message
        /\ calls[c].pc = "resolved" => calls[c].result.turn.status # "failed"

C7_Witness ==
    \E c \in Calls :
        /\ calls[c].pc = "rejected"
        /\ calls[c].term.status = "failed"
        /\ calls[c].error = "boom"

\* C8: the items of a resolved call are exactly the item/completed payloads of
\* its turn id received after runTurn was called and before the terminal
\* notification it settled from, in arrival order.
C8_ItemsUpToTerminal ==
    [][\A c \in Calls :
         /\ RunTurnFinish(c)
         /\ calls'[c].pc = "resolved"
         /\ calls[c].cut[calls[c].turn.id] # <<>>
         => calls'[c].result.items =
                SubSeq(heardItems(ownHeard(calls[c])), 1, calls[c].cut[calls[c].turn.id][1])]_vars

(* ------------------------------------------------------------------ *)
(* Claims checked under SpecLost                                       *)
(* ------------------------------------------------------------------ *)

\* The connection is lost: the subprocess exited with no close() initiated and
\* its exit was handled, or the client has disconnected.
ConnectionLost ==
    \/ exited /\ exitPc = "done" /\ lastError = exitError
    \/ connectPc # "idle" /\ transport = "none"

\* C20: a lost connection is terminal for in-flight aggregation: once the
\* connection is lost no runTurn call is still waiting for its terminal
\* notification; the wait has been rejected.
C20_LostConnectionRejectsWait ==
    ConnectionLost => \A c \in Calls : calls[c].pc # "wait"

disconnected == transport = "none" /\ closePc = "done"

\* C35: once disconnect() has completed, nothing recorded during the connection
\* is left: no pending request, neither of the client's subscriptions on the
\* transport, and no terminal turn in the completedTurns cache.
C35_DisconnectTearsDown ==
    disconnected =>
        /\ pending = {}
        /\ "client" \notin messageHandlers \cup errorHandlers
        /\ \A t \in TurnIds : completedTurns[t] = NoTurn

(* ------------------------------------------------------------------ *)
(* Claims checked under SpecShutdown                                   *)
(* ------------------------------------------------------------------ *)

\* C36: a request issued on a transport on which close() has been called is
\* rejected at once with "transport is closed", writes nothing to stdin and
\* leaves the pending registry and the timers as they were; and once close()
\* has completed the pending registry is empty in every state.
C36_ClosedTransportTakesNoRequest ==
    /\ [][\A method \in RequestMethods :
             closed /\ Request(method) =>
                 /\ promise'[nextRequestId].st = "rejected"
                 /\ promise'[nextRequestId].err = "transport is closed"
                 /\ UNCHANGED <<stdin, pending, timers>>]_vars
    /\ [](closePc = "done" => pending = {} /\ timers = {})

\* close() has completed and a request made after close() was called was
\* rejected: its id is the last one allocated, nothing with that id was
\* written, and nothing is pending.
C36_Witness ==
    /\ closePc = "done"
    /\ nextRequestId >= 2
    /\ promise[nextRequestId - 1].st = "rejected"
    /\ promise[nextRequestId - 1].err = "transport is closed"
    /\ \A i \in DOMAIN stdin :
           "id" \in stdin[i].keys => stdin[i].id # nextRequestId - 1
    /\ pending = {}

(* ------------------------------------------------------------------ *)
(* Claims checked under SpecRouter                                     *)
(* ------------------------------------------------------------------ *)

\* C24: a message handler subscribed from inside another handler's invocation,
\* while a message is being dispatched, does not receive that message: a
\* handler that is not subscribed when a line is read is not invoked with it.
C24_LateSubscriberMissesInFlight ==
    [][\A line \in LiveNotifications :
            ReadLine(line) =>
                \A h \in UserHandlers \ messageHandlers : received'[h] = received[h]]_vars

\* C25: every notification read is delivered to every handler subscribed when
\* it is read, and each handler is given the notifications in the order they
\* were read.
C25_DeliveredToEverySubscriber ==
    [][\A line \in LiveNotifications :
            ReadLine(line) =>
                /\ \A h \in UserHandlers \cap messageHandlers :
                        received'[h] = Append(received[h], nLines')
                /\ "client" \in messageHandlers =>
                        Aggregation' = handleMessage(line)]_vars

(* ------------------------------------------------------------------ *)
(* Claims checked under SpecReview                                     *)
(* ------------------------------------------------------------------ *)

\* The review texts among payloads, for a review whose turn id is turnId ("" for
\* none): the non-empty review fields of the items of type enteredReviewMode or
\* exitedReviewMode that bear the turn id, in order.
RECURSIVE reviewTextsOf(_, _)
reviewTextsOf(payloads, turnId) ==
    IF payloads = <<>> THEN <<>>
    ELSE LET p == Head(payloads)
             counts == /\ turnId = "" \/ p.turnId = turnId
                       /\ p.item.type \in {"enteredReviewMode", "exitedReviewMode"}
                       /\ "review" \in DOMAIN p.item
                       /\ p.item.review # <<>>
         IN (IF counts THEN <<p.item.review>> ELSE <<>>)
                \o reviewTextsOf(Tail(payloads), turnId)

\* C29: every review item of the review's turn that is read after the
\* review/start request was sent is included in reviewText, one read together
\* with the review/start response included.
C29_ReviewItemsFromStart ==
    review.pc = "resolved" =>
        review.result.reviewText =
            trim(joinLines(reviewTextsOf(review.early \o review.heard, review.turnId)))

\* C30: reviewText is the non-empty review texts of the enteredReviewMode and
\* exitedReviewMode items the call's listener was given (those of the review's
\* turn when review/start named one), joined with line feeds in arrival order
\* and trimmed; it is returned with the terminal turn.
C30_ReviewTextFromReviewItems ==
    review.pc = "resolved" =>
        /\ review.result.reviewText =
               trim(joinLines(reviewTextsOf(review.heard, review.turnId)))
        /\ review.result.turn = review.term
        /\ review.term.status \in {"completed", "failed"}
        /\ review.turnId # "" => review.term.id = review.turnId

C30_Witness ==
    /\ review.pc = "resolved"
    /\ Len(reviewTextsOf(review.heard, review.turnId)) = 2
    /\ review.result.reviewText # joinLines(reviewTextsOf(review.heard, review.turnId))
    /\ \E i \in 1..Len(review.result.reviewText) : review.result.reviewText[i] = CharLF

\* C31: when review/start returned no turn id, runReview settles with the first
\* terminal notification of the call's thread, whatever its turn id, and not
\* with one of another thread, also when that notification was read before
\* runReview began to wait.
C31_ReviewSettlesOnThreadTerminal ==
    /\ review.pc \in {"starting", "wait", "got", "resolved", "rejected"}
    /\ promise[review.req].st = "resolved"
    /\ reviewTurnIdOf(promise[review.req].val) = ""
    /\ review.threadTerm # NoTurn
    => /\ review.pc \in {"starting", "got", "resolved"}
       /\ review.pc = "got" => review.term = review.threadTerm
       /\ review.pc = "resolved" => review.result.turn = review.threadTerm

\* C32: a runReview call whose terminal turn has status failed is rejected with
\* the peer's error message; it never resolves with a turn of status failed.
C32_FailedReviewRejects ==
    review.pc \in {"resolved", "rejected"} /\ review.term.status = "failed" =>
        /\ review.pc = "rejected"
        /\ review.error = review.term.error.message
        /\ review.result = NoReview

(* ------------------------------------------------------------------ *)
(* Claims checked under SpecCleanup                                    *)
(* ------------------------------------------------------------------ *)

\* The listeners of the client's internal events that call c registered.
listenersOf(c) == {l \in listeners : l[2] = c}

\* C26: runTurn and runReview leave no listener behind: once a call has
\* settled, by whichever exit, none of the listeners it registered and no timer
\* of its wait remains; with no call in flight the listener set is empty as it
\* was before the calls.
C26_NoListenerLeftBehind ==
    /\ \A c \in Calls :
          calls[c].pc \in {"idle", "resolved", "rejected"} =>
              listenersOf(c) = {} /\ c \notin waitTimers
    /\ review.pc \in {"idle", "resolved", "rejected"} =>
          listenersOf("R") = {} /\ "R" \notin waitTimers

\* A runTurn call rejected for a failed turn beside a runReview call whose wait
\* timed out, both after having registered their listeners.
C26_Witness ==
    /\ calls["A"].pc = "rejected"
    /\ calls["A"].error = "boom"
    /\ review.pc = "rejected"
    /\ review.error = "Timed out waiting for turn completion: turn-1"
    /\ listeners = {}

\* C33: a line that is valid JSON and neither a request, a response nor a
\* notification is a non-fatal parse error: it raises one error signal, is not
\* delivered to the message handlers, settles no pending request, and the read
\* loop keeps reading.
C33_OddFrameIsParseError ==
    [][\A line \in OddFrames :
           ReadLine(line) =>
               /\ errorSignals' = errorSignals + 1
               /\ nDelivered' = nDelivered
               /\ UNCHANGED <<pending, timers, promise>>
               /\ readLoop' = "reading"]_vars

(* ------------------------------------------------------------------ *)
(* Claims checked under SpecAggregate                                  *)
(* ------------------------------------------------------------------ *)

\* The [id, text] entries that heard payloads contribute to the agent message:
\* each delta, and with onlyDeltas false each completed agent-message item too.
RECURSIVE textEntries(_, _)
textEntries(h, onlyDeltas) ==
    IF h = <<>> THEN <<>>
    ELSE LET e == Head(h)
             rest == textEntries(Tail(h), onlyDeltas)
         IN IF e.kind = "delta"
            THEN <<[id |-> e.payload.itemId, text |-> e.payload.text]>> \o rest
            ELSE IF ~onlyDeltas /\ e.kind = "item" /\ e.payload.item.type = "agentMessage"
            THEN <<[id |-> e.payload.item.id, text |-> e.payload.item.text]>> \o rest
            ELSE rest

\* The texts of entries concatenated in order.
RECURSIVE concatTexts(_)
concatTexts(entries) ==
    IF entries = <<>> THEN "" ELSE Head(entries).text \o concatTexts(Tail(entries))

\* The accumulated text of each item id, the ids in order of first receipt.
RECURSIVE byFirstReceipt(_)
byFirstReceipt(entries) ==
    IF entries = <<>> THEN ""
    ELSE concatTexts(SelectSeq(entries, LAMBDA e : e.id = Head(entries).id))
             \o byFirstReceipt(SelectSeq(entries, LAMBDA e : e.id # Head(entries).id))

agentItems(h) == SelectSeq(heardItems(h), LAMBDA item : item.type = "agentMessage")

\* C27 as stated: agentMessage is the text of the first completed agent-message
\* item of the turn; with no such item, the accumulated delta texts per item in
\* order of first receipt; otherwise the empty string.
C27_AgentMessageFirstItem ==
    [][RunTurnFinish("A") /\ calls'["A"].pc = "resolved" =>
           LET own == ownHeard(calls["A"])
           IN calls'["A"].result.agentMessage =
                  IF agentItems(own) # <<>> THEN agentItems(own)[1].text
                  ELSE byFirstReceipt(textEntries(own, TRUE))]_vars

\* C27, amended: agentMessage is the text of the first completed agent-message
\* item of the turn whose text is not empty; with no such item, the texts
\* accumulated per item id from the deltas and the completed agent-message
\* items, the ids in order of first receipt; the empty string when there are
\* none.
C27_AgentMessageFirstNonEmptyItem ==
    [][RunTurnFinish("A") /\ calls'["A"].pc = "resolved" =>
           LET own == ownHeard(calls["A"])
               texted == SelectSeq(agentItems(own), LAMBDA item : item.text # "")
           IN calls'["A"].result.agentMessage =
                  IF texted # <<>> THEN texted[1].text
                  ELSE byFirstReceipt(textEntries(own, FALSE))]_vars

\* A call resolved with the text of its deltas although an agent-message item
\* of its turn completed, with an empty text.
C27_Witness ==
    /\ calls["A"].pc = "resolved"
    /\ \E i \in 1..Len(calls["A"].result.items) :
           /\ calls["A"].result.items[i].type = "agentMessage"
           /\ calls["A"].result.items[i].text = ""
    /\ calls["A"].result.agentMessage = "yhe"

\* C28: the diff of runTurn's result is the payload of the last turn/diff/updated
\* notification bearing the call's turn id that was received during the call,
\* each update replacing the one before; it is absent when none arrived.
C28_DiffIsLastUpdate ==
    [][\A c \in Calls :
         RunTurnFinish(c) /\ calls'[c].pc = "resolved" =>
             LET diffs == SelectSeq(ownHeard(calls[c]), LAMBDA e : e.kind = "diff")
             IN calls'[c].result.diff =
                    IF diffs = <<>> THEN NoDiff
                    ELSE [has |-> TRUE, diff |-> diffs[Len(diffs)].payload.diff]]_vars

\* A call about to return that heard two different diff updates of its turn
\* and holds the later one.
C28_Witness ==
    \E c \in Calls :
        LET diffs == SelectSeq(ownHeard(calls[c]), LAMBDA e : e.kind = "diff")
        IN /\ calls[c].pc = "got"
           /\ Len(diffs) = 2
           /\ diffs[1].payload.diff = "diff-1b"
           /\ calls[c].diffByTurn[calls[c].turn.id] = [has |-> TRUE, diff |-> "diff-1a"]

(* ------------------------------------------------------------------ *)
(* Claims checked under SpecShapes                                     *)
(* ------------------------------------------------------------------ *)

\* C34: a notification whose payload fails the validation of its method is
\* dropped silently: handleMessage emits no public event for it, the state of
\* the runTurn and runReview calls, their listeners and timers and the
\* completed-turn cache stay as they were, no error is signalled, and the read
\* loop goes on reading, so that the notifications after it are dispatched.
C34_MalformedDropped ==
    [][\A line \in MalformedNotifications :
          ReadLine(line) =>
              /\ publicEvents(line) = {}
              /\ UNCHANGED <<completedTurns, listeners, waitTimers, calls, review>>
              /\ UNCHANGED <<errorSignals, lastError, pending, timers, promise>>
              /\ readLoop' = "reading"]_vars

\* A call that resolved with the one item and the terminal turn dispatched to
\* it although a malformed notification was read while it ran: of the five
\* lines read, one answered initialize, one turn/start, one was the item and one
\* the terminal notification, which was the last of them.
C34_Witness ==
    /\ calls["A"].pc = "resolved"
    /\ ~calls["A"].fromCache
    /\ calls["A"].result.items = <<HelloItem>>
    /\ calls["A"].result.agentMessage = "hello world"
    /\ calls["A"].result.diff = NoDiff
    /\ nLines = 5
    /\ errorSignals = 0
    /\ \A t \in TurnIds : completedTurns[t] = NoTurn

(* ------------------------------------------------------------------ *)
(* Claims checked under SpecFramer                                     *)
(* ------------------------------------------------------------------ *)

\* The read loop run on stdout delivered as one contiguous chunk.
wholeStream ==
    LET fr == readChunk(NewFrame, stdout)
    IN IF fr.crashed THEN fr ELSE readTail(fr)

\* C9: however the byte stream is cut into chunks, in the middle of a line or of
\* a character included, the read loop hands the same lines to handleLine, in
\* the same order, as when the stream arrives as one chunk, and ends the same
\* way; a non-empty remainder without a line feed is handed over as the last
\* line.
C9_ChunkingInvariance ==
    readLoop \in {"done", "crashed"} =>
        /\ handled = wholeStream.handled
        /\ (readLoop = "crashed") = wholeStream.crashed
        /\ readLoop = "done" /\ trim(buffer) # <<>> =>
               handled # <<>> /\ handled[Len(handled)] = trim(buffer)

\* A stream read to its end in chunks cut inside a line and inside a character,
\* with a line before the cut-off remainder that became the last line.
C9_Witness ==
    /\ readLoop = "done"
    /\ cuts = {"line", "char"}
    /\ Len(handled) >= 2
    /\ stdout[Len(stdout)] # ByteLF
    /\ handled[Len(handled)] = trim(buffer)
    /\ \E i \in 1..Len(handled) : \E j \in 1..Len(handled[i]) : handled[i][j] = CharE9

====
